---- MODULE Spec2Model ----
(***************************************************************************)
(* Model of the Axrone tween timeline (packages/core/src/tween/timeline.ts)*)
(* and of the ObjectTween property interpolation engine that it drives.    *)
(*                                                                         *)
(* Times are integers.  A progress ratio is the exact fraction             *)
(* [num, den]; the model's durations, times and values are chosen so that  *)
(* start + (end - start) * num / den is an integer wherever the result is  *)
(* kept as a number; where it is stored in a typed array of integer        *)
(* elements, which keeps the integer part, the ratio may leave a fraction. *)
(* Every sum, difference and product of the interpolation is rounded as a  *)
(* floating-point operation rounds it, to a significand of MantissaBits    *)
(* bits.                                                                   *)
(***************************************************************************)
EXTENDS Integers, Sequences, FiniteSets, TLC

(***************************************************************************)
(* Bounds of the model                                                     *)
(***************************************************************************)
\* the unit of time of the model: every time, duration and position is a
\* multiple of it
TimeStep == 5
\* explicit update times are 0, TimeStep, ..., MaxTick * TimeStep
MaxTick == 5
\* the most entries a timeline receives
MaxItems == 2
\* the largest repeat count of a tween
MaxRepeat == 1
\* the bits of the significand of a number (53 in an IEEE 754 double): an
\* integer below 2^MantissaBits is a number, a larger one is rounded to one
MantissaBits == 8

(***************************************************************************)
(* Optional values (a parameter `time?: number`, an option that may be     *)
(* undefined)                                                              *)
(***************************************************************************)
None == [defined |-> FALSE, value |-> 0]
Some(v) == [defined |-> TRUE, value |-> v]
OrElse(opt, d) == IF opt.defined THEN opt.value ELSE d

Max(a, b) == IF a >= b THEN a ELSE b

(***************************************************************************)
(* Values of a value tree.  A tree is a function from its dotted paths to  *)
(* leaves; a leaf is a number, an array of numbers, or absent (undefined). *)
(***************************************************************************)
\* Every leaf is a record [t, ctor, v]: v holds the number of a scalar leaf
\* as a one-element sequence, the elements of an array or typed array.
Undefined == [t |-> "undefined", ctor |-> "", v |-> <<>>]
Num(n) == [t |-> "number", ctor |-> "", v |-> <<n>>]
Arr(s) == [t |-> "array", ctor |-> "", v |-> s]
NumOf(x) == x.v[1]

\* a progress ratio num/den, clamped to [0, 1]
Progress(elapsed, duration) ==
    IF elapsed <= 0 THEN [num |-> 0, den |-> 1]
    ELSE IF elapsed >= duration THEN [num |-> 1, den |-> 1]
    ELSE [num |-> elapsed, den |-> duration]

IsOne(progress) == progress.num >= progress.den

\* the number an arithmetic operation returns for the exact result x.  A
\* magnitude below 2^MantissaBits is a number.  From there to
\* 2^(MantissaBits + 1), which the model's magnitudes stay below, the numbers
\* are the even integers, and an odd x lies between two of them, equally
\* near: the result is the one of even significand, the multiple of 4.
Round(x) ==
    IF (x < 2 ^ MantissaBits /\ -x < 2 ^ MantissaBits) \/ x % 2 = 0 THEN x
    ELSE IF (x + 1) % 4 = 0 THEN x + 1 ELSE x - 1

\* startVal + (end - startVal) * progress: the difference and the sum are
\* rounded; the product is exact at progress 0 and 1, and an integer that
\* is a number at the other ratios of the model
Lerp(startVal, endVal, progress) ==
    Round(startVal + (Round(endVal - startVal) * progress.num) \div progress.den)

(***************************************************************************)
(* ObjectTween: value trees and the property interpolation engine          *)
(***************************************************************************)
Typed(ctor, s) == [t |-> "typed", ctor |-> ctor, v |-> s]

IsArray(x) == x.t = "array"
IsView(x) == x.t = "typed"
IsNumber(x) == x.t = "number"
IsUndefined(x) == x.t = "undefined"

\* what `new constructor(values)` stores for each element; n is the integer
\* part of the number converted
Coerce(ctor, n) == IF ctor = "Uint8Array" THEN n % 256 ELSE n

Zeros(n) == [i \in 1..n |-> 0]

\* ObjectTween._getPropValue
GetPropValue(obj, path) == IF path \in DOMAIN obj THEN obj[path] ELSE Undefined

\* ObjectTween._setPropValue
SetPropValue(obj, path, value) ==
    [p \in DOMAIN obj \cup {path} |-> IF p = path THEN value ELSE obj[p]]

\* ObjectTween._collectProps: the dotted paths of a tree
CollectProps(obj) == DOMAIN obj

\* ObjectTween._getDefaultValue
GetDefaultValue(endValue) ==
    IF IsNumber(endValue) THEN Num(0)
    ELSE IF IsArray(endValue) THEN Arr(Zeros(Len(endValue.v)))
    ELSE IF IsView(endValue) THEN Typed(endValue.ctor, Zeros(Len(endValue.v)))
    ELSE Num(0)

\* ObjectTween._deepClone, on one leaf and on a tree
CloneLeaf(x) ==
    IF IsArray(x) THEN Arr([i \in 1..Len(x.v) |-> x.v[i]])
    ELSE IF IsView(x) THEN Typed(x.ctor, [i \in 1..Len(x.v) |-> Coerce(x.ctor, x.v[i])])
    ELSE x

DeepClone(source) == [p \in DOMAIN source |-> CloneLeaf(source[p])]

\* the configured interpolation function applied to the control values
\* <<v0, v1>>: "Linear" is Interpolation.Linear, "Step" a custom function
\* that holds v0 until the end of the cycle
Interpolate(fn, v0, v1, progress) ==
    IF fn = "Linear" THEN Lerp(v0, v1, progress)
    ELSE IF IsOne(progress) THEN v1 ELSE v0

\* the calls of the configured interpolation function that _updateProperties
\* makes for one path, in order: the control values and the progress of each
InterpolationCalls(tw, prop, progress) ==
    LET start == GetPropValue(tw.valuesStart, prop)
        end == GetPropValue(tw.valuesEnd, prop)
        startVal(i) == IF i <= Len(start.v) THEN start.v[i] ELSE 0
    IN  IF /\ ~IsUndefined(start) /\ ~IsUndefined(end)
           /\ (IsArray(end) /\ IsArray(start)) \/ (IsView(end) /\ IsView(start))
           /\ tw.interpolation # "Linear" /\ Len(end.v) > 1
        THEN [i \in 1..Len(end.v) |->
                 [values |-> <<startVal(i), end.v[i]>>, progress |-> progress]]
        ELSE <<>>

\* the value _updateProperties writes for one path (Undefined: no write)
InterpolatedLeaf_CustomAlways(tw, prop, progress) ==
    LET start == GetPropValue(tw.valuesStart, prop)
        end == GetPropValue(tw.valuesEnd, prop)
        startVal(i) == IF i <= Len(start.v) THEN start.v[i] ELSE 0
    IN  IF IsUndefined(start) \/ IsUndefined(end) THEN Undefined
        ELSE IF (IsArray(end) /\ IsArray(start)) \/ (IsView(end) /\ IsView(start))
        THEN LET result ==
                     [i \in 1..Len(end.v) |->
                         Interpolate(tw.interpolation, startVal(i), end.v[i], progress)]
             IN  IF IsView(end)
                 THEN Typed(end.ctor, [i \in 1..Len(result) |-> Coerce(end.ctor, result[i])])
                 ELSE Arr(result)
        ELSE IF IsNumber(end)
        THEN LET sv == IF IsNumber(start) THEN NumOf(start) ELSE 0
             IN  Num(Lerp(sv, NumOf(end), progress))
        ELSE Undefined

InterpolatedLeaf_NoPadding(tw, prop, progress) ==
    LET start == GetPropValue(tw.valuesStart, prop)
        end == GetPropValue(tw.valuesEnd, prop)
        startVal(i) == IF i <= Len(start.v) THEN start.v[i] ELSE end.v[i]
    IN  IF IsUndefined(start) \/ IsUndefined(end) THEN Undefined
        ELSE IF (IsArray(end) /\ IsArray(start)) \/ (IsView(end) /\ IsView(start))
        THEN LET result ==
                     IF tw.interpolation # "Linear" /\ Len(end.v) > 1
                     THEN [i \in 1..Len(end.v) |->
                               Interpolate(tw.interpolation, startVal(i), end.v[i], progress)]
                     ELSE [i \in 1..Len(end.v) |-> Lerp(startVal(i), end.v[i], progress)]
             IN  IF IsView(end)
                 THEN Typed(end.ctor, [i \in 1..Len(result) |-> Coerce(end.ctor, result[i])])
                 ELSE Arr(result)
        ELSE IF IsNumber(end)
        THEN LET sv == IF IsNumber(start) THEN NumOf(start) ELSE 0
             IN  Num(Lerp(sv, NumOf(end), progress))
        ELSE Undefined

InterpolatedLeaf(tw, prop, progress) ==
    LET start == GetPropValue(tw.valuesStart, prop)
        end == GetPropValue(tw.valuesEnd, prop)
        startVal(i) == IF i <= Len(start.v) THEN start.v[i] ELSE 0
    IN  IF IsUndefined(start) \/ IsUndefined(end) THEN Undefined
        ELSE IF (IsArray(end) /\ IsArray(start)) \/ (IsView(end) /\ IsView(start))
        THEN LET result ==
                     IF tw.interpolation # "Linear" /\ Len(end.v) > 1
                     THEN [i \in 1..Len(end.v) |->
                               Interpolate(tw.interpolation, startVal(i), end.v[i], progress)]
                     ELSE [i \in 1..Len(end.v) |-> Lerp(startVal(i), end.v[i], progress)]
             IN  IF IsView(end)
                 THEN Typed(end.ctor, [i \in 1..Len(result) |-> Coerce(end.ctor, result[i])])
                 ELSE Arr(result)
        ELSE IF IsNumber(end)
        THEN LET sv == IF IsNumber(start) THEN NumOf(start) ELSE 0
             IN  Num(Lerp(sv, NumOf(end), progress))
        ELSE Undefined

\* ObjectTween._updateProperties.  `sharedProps` are the paths at which the
\* subject holds the very array that the start tree holds; a written array
\* is a new one
WriteLeaves(tw, leaves) ==
    LET written == {q \in DOMAIN leaves : ~IsUndefined(leaves[q])}
    IN  [tw EXCEPT !.object =
                       [p \in DOMAIN tw.object \cup written |->
                           IF p \in written THEN leaves[p] ELSE tw.object[p]],
                   !.sharedProps = @ \ {p \in written : ~IsNumber(leaves[p])}]

UpdateProperties(tw, progress) ==
    WriteLeaves(tw, [p \in tw.objectProps |-> InterpolatedLeaf(tw, p, progress)])

\* ObjectTween._reset: the cycle-reset protocol.  `snapshotProps` are the
\* paths at which the start tree holds the very array that the snapshot
\* _valuesStartRepeat holds: none after a deep clone
Reset_NoSwap(tw) ==
    IF tw.yoyo
    THEN [tw EXCEPT !.reversed = ~tw.reversed]
    ELSE LET vs == DeepClone(tw.valuesStartRepeat)
             written == {q \in tw.objectProps : ~IsUndefined(GetPropValue(vs, q))}
         IN  [tw EXCEPT !.valuesStart = vs,
                        !.object =
                            [p \in DOMAIN tw.object \cup written |->
                                IF p \in written THEN GetPropValue(vs, p) ELSE tw.object[p]],
                        !.sharedProps =
                            (@ \ written) \cup {p \in written : IsArray(vs[p]) \/ IsView(vs[p])},
                        !.snapshotProps = {}]

Reset_InstallsSnapshot(tw) ==
    IF tw.yoyo
    THEN [tw EXCEPT !.valuesStart = tw.valuesEnd,
                    !.valuesEnd = tw.valuesStart,
                    !.reversed = ~tw.reversed]
    ELSE LET vs == tw.valuesStartRepeat
             written == {q \in tw.objectProps : ~IsUndefined(GetPropValue(vs, q))}
         IN  [tw EXCEPT !.valuesStart = vs,
                        !.object =
                            [p \in DOMAIN tw.object \cup written |->
                                IF p \in written THEN GetPropValue(vs, p) ELSE tw.object[p]],
                        !.sharedProps =
                            (@ \ written) \cup {p \in written : IsArray(vs[p]) \/ IsView(vs[p])},
                        !.snapshotProps = {p \in DOMAIN vs : IsArray(vs[p]) \/ IsView(vs[p])}]

Reset_KeepsSubject(tw) ==
    IF tw.yoyo
    THEN [tw EXCEPT !.valuesStart = tw.valuesEnd,
                    !.valuesEnd = tw.valuesStart,
                    !.reversed = ~tw.reversed]
    ELSE [tw EXCEPT !.valuesStart = DeepClone(tw.valuesStartRepeat),
                    !.snapshotProps = {}]

Reset(tw) ==
    IF tw.yoyo
    THEN [tw EXCEPT !.valuesStart = tw.valuesEnd,
                    !.valuesEnd = tw.valuesStart,
                    !.reversed = ~tw.reversed]
    ELSE LET vs == DeepClone(tw.valuesStartRepeat)
             written == {q \in tw.objectProps : ~IsUndefined(GetPropValue(vs, q))}
         IN  [tw EXCEPT !.valuesStart = vs,
                        !.object =
                            [p \in DOMAIN tw.object \cup written |->
                                IF p \in written THEN GetPropValue(vs, p) ELSE tw.object[p]],
                        !.sharedProps =
                            (@ \ written) \cup {p \in written : IsArray(vs[p]) \/ IsView(vs[p])},
                        !.snapshotProps = {}]

\* ObjectTween._initStartEndValues
InitStartEndValues_Overwrites(tw) ==
    LET props == CollectProps(tw.valuesEnd) \cup CollectProps(tw.valuesStart)
        propValue(p) == GetPropValue(tw.object, p)
        startOf(p) ==
            IF IsUndefined(GetPropValue(tw.valuesStart, p))
            THEN IF ~IsUndefined(propValue(p)) THEN propValue(p)
                 ELSE GetDefaultValue(GetPropValue(tw.valuesEnd, p))
            ELSE GetPropValue(tw.valuesStart, p)
        endOf(p) ==
            IF IsUndefined(GetPropValue(tw.valuesEnd, p)) THEN propValue(p)
            ELSE GetPropValue(tw.valuesEnd, p)
        vs == [p \in props |-> startOf(p)]
    IN  [tw EXCEPT !.objectProps = props,
                   !.valuesStart = vs,
                   !.valuesEnd = [p \in props |-> endOf(p)],
                   !.object = [p \in DOMAIN tw.object \cup props |->
                                  IF p \in props THEN startOf(p) ELSE tw.object[p]],
                   !.sharedProps =
                       {p \in props : IsArray(startOf(p)) \/ IsView(startOf(p))},
                   !.snapshotProps = {},
                   !.valuesStartRepeat = DeepClone(vs)]

InitStartEndValues(tw) ==
    LET props == CollectProps(tw.valuesEnd) \cup CollectProps(tw.valuesStart)
        propValue(p) == GetPropValue(tw.object, p)
        startOf(p) ==
            IF IsUndefined(GetPropValue(tw.valuesStart, p))
            THEN IF ~IsUndefined(propValue(p)) THEN propValue(p)
                 ELSE GetDefaultValue(GetPropValue(tw.valuesEnd, p))
            ELSE GetPropValue(tw.valuesStart, p)
        endOf(p) ==
            IF IsUndefined(GetPropValue(tw.valuesEnd, p)) THEN propValue(p)
            ELSE GetPropValue(tw.valuesEnd, p)
        vs == [p \in props |-> startOf(p)]
    IN  [tw EXCEPT !.objectProps = props,
                   !.valuesStart = vs,
                   !.valuesEnd = [p \in props |-> endOf(p)],
                   !.object = [p \in DOMAIN tw.object \cup props |->
                                  IF IsUndefined(propValue(p)) /\ p \in props
                                  THEN startOf(p) ELSE tw.object[p]],
                   !.sharedProps =
                       {p \in props :
                           /\ IsArray(startOf(p)) \/ IsView(startOf(p))
                           /\ \/ IsUndefined(GetPropValue(tw.valuesStart, p))
                              \/ IsUndefined(propValue(p))},
                   !.snapshotProps = {},
                   !.valuesStartRepeat = DeepClone(vs)]

(***************************************************************************)
(* Notifications and calls.  Every target (a tween or a timeline) carries  *)
(* `log`, the notifications it emitted, and `calls`, the lifecycle methods *)
(* its owner invoked on it, both since the last external call began.       *)
(***************************************************************************)
Event(topic, data) == [topic |-> topic, data |-> data]

\* EventEmitter.emitSync
Emit(t, topic, data) == [t EXCEPT !.log = Append(@, Event(topic, data))]

Called(t, method, arg) == [t EXCEPT !.calls = Append(@, Event(method, arg))]

(***************************************************************************)
(* TweenCore: the tween state machine (§4.1)                               *)
(***************************************************************************)
\* the fields of a tween before its start and end values are resolved
ConfiguredTween(object, valuesStart, valuesEnd, duration, repeat, yoyo, interpolation) ==
    [kind |-> "tween", duration |-> duration, repeat |-> repeat, yoyo |-> yoyo,
     interpolation |-> interpolation, status |-> "idle", startTime |-> 0,
     repeatsRemaining |-> repeat, reversed |-> FALSE, objectProps |-> {},
     sharedProps |-> {}, snapshotProps |-> {},
     valuesStart |-> valuesStart, valuesEnd |-> valuesEnd,
     valuesStartRepeat |-> valuesStart, declaredStart |-> valuesStart,
     object |-> object, calls |-> <<>>, log |-> <<>>]

\* initialization: the start and end values are resolved; `declaredStart`
\* keeps the start values as they were resolved
Initialized(t) ==
    [InitStartEndValues(t) EXCEPT !.declaredStart = InitStartEndValues(t).valuesStart]

\* new ObjectTween(object, config)
NewTween(object, valuesStart, valuesEnd, duration, repeat, yoyo, interpolation) ==
    Initialized(ConfiguredTween(object, valuesStart, valuesEnd, duration, repeat, yoyo,
                                interpolation))

TweenIsPlaying(tw) == tw.status = "playing"

\* start(time): idle|completed -> playing, elapsed accounting reset
TweenStart(tw, time) ==
    IF tw.status \in {"idle", "completed"}
    THEN Emit([tw EXCEPT !.status = "playing", !.startTime = time], "start", 0)
    ELSE tw

\* stop(): any state -> idle
TweenStop(tw) ==
    IF tw.status = "idle" THEN tw
    ELSE Emit([tw EXCEPT !.status = "idle"], "stop", 0)

\* pause(): playing -> paused
TweenPause(tw) ==
    IF tw.status = "playing" THEN Emit([tw EXCEPT !.status = "paused"], "pause", 0)
    ELSE tw

\* resume(): paused -> playing
TweenResume(tw) ==
    IF tw.status = "paused" THEN Emit([tw EXCEPT !.status = "playing"], "resume", 0)
    ELSE tw

\* update(time): progress of the current cycle, the properties written,
\* then the next cycle or completion
EndOfCycle_ExtraCycle(tw, progress, time) ==
    IF ~IsOne(progress) THEN tw
    ELSE IF tw.repeatsRemaining >= 0
    THEN Reset([tw EXCEPT !.repeatsRemaining = @ - 1, !.startTime = time])
    ELSE Emit([tw EXCEPT !.status = "completed"], "complete", 0)

EndOfCycle(tw, progress, time) ==
    IF ~IsOne(progress) THEN tw
    ELSE IF tw.repeatsRemaining > 0
    THEN Reset([tw EXCEPT !.repeatsRemaining = @ - 1, !.startTime = time])
    ELSE Emit([tw EXCEPT !.status = "completed"], "complete", 0)

TweenUpdate(tw, time) ==
    IF tw.status # "playing" THEN tw
    ELSE EndOfCycle(Emit(UpdateProperties(tw, Progress(time - tw.startTime, tw.duration)),
                         "update", time),
                    Progress(time - tw.startTime, tw.duration), time)

(***************************************************************************)
(* Timeline                                                                *)
(***************************************************************************)
\* new Timeline()
NewTimeline ==
    [kind |-> "timeline", timelineItems |-> <<>>, duration |-> 0, currentTime |-> 0,
     isPlaying |-> FALSE, isPaused |-> FALSE, timeScale |-> 1, lastUpdateTime |-> 0,
     animFrameId |-> None, autoUpdate |-> FALSE,
     rafRequested |-> {}, rafCancelled |-> {},
     visited |-> <<>>, calls |-> <<>>, log |-> <<>>]

\* cancelAnimationFrame(this._animFrameId); this._animFrameId = undefined
CancelFrame(tl) ==
    [tl EXCEPT !.rafCancelled = @ \cup {tl.animFrameId.value}, !.animFrameId = None]

\* `tween instanceof TweenCore`
IsTweenCore(target) == target.kind = "tween"

\* Array.prototype.sort((a, b) => a.start - b.start): a stable sort
RECURSIVE SortByStart_Unstable(_)
SortByStart_Unstable(items) ==
    IF Len(items) <= 1 THEN items
    ELSE LET front == SortByStart_Unstable(SubSeq(items, 1, Len(items) - 1))
             x == items[Len(items)]
             k == Cardinality({i \in 1..Len(front) : front[i].start < x.start})
         IN  SubSeq(front, 1, k) \o <<x>> \o SubSeq(front, k + 1, Len(front))

RECURSIVE SortByStart(_)
SortByStart(items) ==
    IF Len(items) <= 1 THEN items
    ELSE LET front == SortByStart(SubSeq(items, 1, Len(items) - 1))
             x == items[Len(items)]
             k == Cardinality({i \in 1..Len(front) : front[i].start <= x.start})
         IN  SubSeq(front, 1, k) \o <<x>> \o SubSeq(front, k + 1, Len(front))

\* Timeline.isPlaying
TimelineIsPlaying(tl) == tl.isPlaying

\* Timeline.getDuration
GetDuration(tl) == tl.duration

\* Timeline.setTimeScale
SetTimeScale(tl, scale) == [tl EXCEPT !.timeScale = scale]

\* Timeline.add, `startPosition`: options.position before options.offset
StartPosition_AddsOffset(tl, options) ==
    IF options.position.defined THEN options.position.value + OrElse(options.offset, 0)
    ELSE tl.duration + OrElse(options.offset, 0)

StartPosition(tl, options) ==
    LET offset == OrElse(options.offset, 0)
    IN  IF options.position.defined THEN options.position.value
        ELSE tl.duration + offset

\* Timeline.add, `duration`: the length of the entry's window
EntryDuration(tween) ==
    IF IsTweenCore(tween) THEN tween.duration * (tween.repeat + 1) ELSE 0

\* Timeline.add, `this._duration = Math.max(this._duration, endPosition)`
NewDuration_Last(tl, endPosition) == endPosition

NewDuration_Sum(tl, endPosition) == tl.duration + endPosition

NewDuration(tl, endPosition) == Max(tl.duration, endPosition)

\* Timeline.add: `seq` numbers the entries in the order they were added
TimelineAdd(tl, tween, options, seq) ==
    LET startPosition == StartPosition(tl, options)
        duration == EntryDuration(tween)
        endPosition == startPosition + duration
        item == [target |-> tween, start |-> startPosition, end |-> endPosition,
                 originalDuration |-> duration, seq |-> seq]
    IN  [tl EXCEPT !.timelineItems = SortByStart(Append(@, item)),
                   !.duration = NewDuration(tl, endPosition)]

RECURSIVE TimelineStart(_, _, _, _)
RECURSIVE TimelineStop(_)
RECURSIVE TimelinePause(_)
RECURSIVE TimelineResume(_, _, _)
RECURSIVE TimelineUpdate(_, _, _)

\* the lifecycle methods of an entry target (IGroupable), by its class
TargetIsPlaying(t) == IF IsTweenCore(t) THEN TweenIsPlaying(t) ELSE TimelineIsPlaying(t)

TargetIsPaused(t) == IF IsTweenCore(t) THEN t.status = "paused" ELSE FALSE

TargetStart(t, time, now) ==
    IF IsTweenCore(t) THEN TweenStart(Called(t, "start", time), time)
    ELSE TimelineStart(Called(t, "start", time), Some(time), now, 0)

TargetStop(t) ==
    IF IsTweenCore(t) THEN TweenStop(Called(t, "stop", 0))
    ELSE TimelineStop(Called(t, "stop", 0))

TargetPause(t) ==
    IF IsTweenCore(t) THEN TweenPause(Called(t, "pause", 0))
    ELSE TimelinePause(Called(t, "pause", 0))

TargetResume(t, now) ==
    IF IsTweenCore(t) THEN TweenResume(Called(t, "resume", 0))
    ELSE TimelineResume(Called(t, "resume", 0), now, 0)

TargetUpdate(t, time, now) ==
    IF IsTweenCore(t) THEN TweenUpdate(Called(t, "update", time), time)
    ELSE TimelineUpdate(Called(t, "update", time), Some(time), now)

\* the body of the loop of Timeline._updateItems for one entry
UpdateItem_NoForce(item, currentTime, now) ==
    LET target == item.target
    IN  [item EXCEPT !.target =
            IF currentTime >= item.start /\ currentTime <= item.end
            THEN TargetUpdate(IF ~TargetIsPlaying(target)
                              THEN TargetStart(target, 0, now) ELSE target,
                              currentTime - item.start, now)
            ELSE IF TargetIsPlaying(target) THEN TargetStop(target) ELSE target]

UpdateItem_AbsoluteTime(item, currentTime, now) ==
    LET target == item.target
    IN  [item EXCEPT !.target =
            IF currentTime >= item.start /\ currentTime <= item.end
            THEN TargetUpdate(IF ~TargetIsPlaying(target)
                              THEN TargetStart(target, 0, now) ELSE target,
                              currentTime, now)
            ELSE IF currentTime > item.end
            THEN IF TargetIsPlaying(target)
                 THEN TargetStop(TargetUpdate(target, item.originalDuration, now))
                 ELSE TargetStop(TargetUpdate(TargetStart(target, 0, now),
                                              item.originalDuration, now))
            ELSE IF TargetIsPlaying(target) THEN TargetStop(target) ELSE target]

UpdateItem_KeepsRunning(item, currentTime, now) ==
    LET target == item.target
    IN  [item EXCEPT !.target =
            IF currentTime >= item.start /\ currentTime <= item.end
            THEN TargetUpdate(IF ~TargetIsPlaying(target)
                              THEN TargetStart(target, 0, now) ELSE target,
                              currentTime - item.start, now)
            ELSE IF currentTime > item.end
            THEN IF TargetIsPlaying(target)
                 THEN TargetStop(TargetUpdate(target, item.originalDuration, now))
                 ELSE TargetStop(TargetUpdate(TargetStart(target, 0, now),
                                              item.originalDuration, now))
            ELSE target]

UpdateItem(item, currentTime, now) ==
    LET target == item.target
    IN  [item EXCEPT !.target =
            IF currentTime >= item.start /\ currentTime <= item.end
            THEN TargetUpdate(IF ~TargetIsPlaying(target)
                              THEN TargetStart(target, 0, now) ELSE target,
                              currentTime - item.start, now)
            ELSE IF currentTime > item.end
            THEN IF TargetIsPlaying(target)
                 THEN TargetStop(TargetUpdate(target, item.originalDuration, now))
                 ELSE TargetStop(TargetUpdate(TargetStart(target, 0, now),
                                              item.originalDuration, now))
            ELSE IF TargetIsPlaying(target) THEN TargetStop(target) ELSE target]

\* Timeline._updateItems: the loop over the entries, in the order of the
\* array.  `visited` lists the entries in the order the loop processed them,
\* each with the number of notifications the timeline had emitted by then
UpdateItems(tl, now) ==
    [tl EXCEPT !.timelineItems =
                   [i \in 1..Len(tl.timelineItems) |->
                       UpdateItem(tl.timelineItems[i], tl.currentTime, now)],
               !.visited =
                   [i \in 1..Len(tl.timelineItems) |->
                       [seq |-> tl.timelineItems[i].seq, emitted |-> Len(tl.log)]]]

\* Timeline.update(time?)
TimelineUpdate_StrictlyAfter(tl, time, now) ==
    IF ~tl.isPlaying \/ tl.isPaused THEN tl
    ELSE LET t1 == IF time.defined
                   THEN [tl EXCEPT !.currentTime = time.value * tl.timeScale]
                   ELSE [tl EXCEPT !.currentTime = @ + (now - tl.lastUpdateTime) * tl.timeScale,
                                   !.lastUpdateTime = now]
             t2 == Emit(t1, "update", t1.currentTime)
             t3 == UpdateItems(t2, OrElse(time, now))
         IN  IF t3.currentTime > t3.duration
             THEN Emit([t3 EXCEPT !.isPlaying = FALSE], "complete", 0)
             ELSE t3

TimelineUpdate_CompleteFirst(tl, time, now) ==
    IF ~tl.isPlaying \/ tl.isPaused THEN tl
    ELSE LET t1 == IF time.defined
                   THEN [tl EXCEPT !.currentTime = time.value * tl.timeScale]
                   ELSE [tl EXCEPT !.currentTime = @ + (now - tl.lastUpdateTime) * tl.timeScale,
                                   !.lastUpdateTime = now]
             t2 == Emit(t1, "update", t1.currentTime)
             t3 == IF t2.currentTime >= t2.duration
                   THEN Emit([t2 EXCEPT !.isPlaying = FALSE], "complete", 0)
                   ELSE t2
         IN  UpdateItems(t3, OrElse(time, now))

TimelineUpdate(tl, time, now) ==
    IF ~tl.isPlaying \/ tl.isPaused THEN tl
    ELSE LET t1 == IF time.defined
                   THEN [tl EXCEPT !.currentTime = time.value * tl.timeScale]
                   ELSE [tl EXCEPT !.currentTime = @ + (now - tl.lastUpdateTime) * tl.timeScale,
                                   !.lastUpdateTime = now]
             t2 == Emit(t1, "update", t1.currentTime)
             t3 == UpdateItems(t2, OrElse(time, now))
         IN  IF t3.currentTime >= t3.duration
             THEN Emit([t3 EXCEPT !.isPlaying = FALSE], "complete", 0)
             ELSE t3

\* Timeline._internalUpdate: `handle` is what requestAnimationFrame returns
InternalUpdate(tl, now, handle) ==
    IF ~tl.isPlaying \/ tl.isPaused \/ ~tl.autoUpdate THEN tl
    ELSE TimelineUpdate([tl EXCEPT !.animFrameId = Some(handle),
                                   !.rafRequested = @ \cup {handle}],
                        Some(now), now)

\* Timeline._startInternalLoop
StartInternalLoop_NoGuard(tl, now, handle) ==
    InternalUpdate(tl, now, handle)

StartInternalLoop(tl, now, handle) ==
    IF tl.animFrameId.defined THEN tl ELSE InternalUpdate(tl, now, handle)

\* Timeline.start(time?)
TimelineStart(tl, time, now, handle) ==
    IF tl.isPlaying THEN tl
    ELSE LET t1 == [tl EXCEPT !.isPlaying = TRUE, !.isPaused = FALSE,
                              !.lastUpdateTime = OrElse(time, 0),
                              !.timelineItems =
                                  [i \in 1..Len(@) |->
                                      [@[i] EXCEPT !.target = TargetStop(@)]],
                              !.currentTime = 0]
             t2 == Emit(t1, "start", 0)
         IN  IF ~time.defined /\ t2.autoUpdate
             THEN StartInternalLoop(t2, now, handle)
             ELSE t2

\* Timeline.stop()
TimelineStop(tl) ==
    IF ~tl.isPlaying THEN tl
    ELSE LET t1 == [tl EXCEPT !.isPlaying = FALSE, !.isPaused = FALSE]
             t2 == IF t1.animFrameId.defined /\ t1.animFrameId.value # 0
                   THEN CancelFrame(t1) ELSE t1
             t3 == [t2 EXCEPT !.timelineItems =
                                  [i \in 1..Len(@) |->
                                      [@[i] EXCEPT !.target = TargetStop(@)]]]
         IN  Emit(t3, "stop", 0)

\* Timeline.pause()
TimelinePause_NoGuard(tl) ==
    IF ~tl.isPlaying THEN tl
    ELSE LET t1 == [tl EXCEPT !.isPaused = TRUE]
             t2 == IF t1.animFrameId.defined /\ t1.animFrameId.value # 0
                   THEN CancelFrame(t1) ELSE t1
             t3 == [t2 EXCEPT !.timelineItems =
                                  [i \in 1..Len(@) |->
                                      [@[i] EXCEPT !.target =
                                          IF TargetIsPlaying(@) THEN TargetPause(@) ELSE @]]]
         IN  Emit(t3, "pause", 0)

TimelinePause(tl) ==
    IF ~tl.isPlaying \/ tl.isPaused THEN tl
    ELSE LET t1 == [tl EXCEPT !.isPaused = TRUE]
             t2 == IF t1.animFrameId.defined /\ t1.animFrameId.value # 0
                   THEN CancelFrame(t1) ELSE t1
             t3 == [t2 EXCEPT !.timelineItems =
                                  [i \in 1..Len(@) |->
                                      [@[i] EXCEPT !.target =
                                          IF TargetIsPlaying(@) THEN TargetPause(@) ELSE @]]]
         IN  Emit(t3, "pause", 0)

\* Timeline.resume()
TimelineResume_NoAnchor(tl, now, handle) ==
    IF ~tl.isPaused THEN tl
    ELSE LET t1 == [tl EXCEPT !.isPaused = FALSE]
             t2 == [t1 EXCEPT !.timelineItems =
                                  [i \in 1..Len(@) |->
                                      [@[i] EXCEPT !.target =
                                          IF TargetIsPaused(@) THEN TargetResume(@, now) ELSE @]]]
             t3 == IF t2.autoUpdate THEN StartInternalLoop(t2, now, handle) ELSE t2
         IN  Emit(t3, "resume", 0)

TimelineResume(tl, now, handle) ==
    IF ~tl.isPaused THEN tl
    ELSE LET t1 == [tl EXCEPT !.isPaused = FALSE, !.lastUpdateTime = now]
             t2 == [t1 EXCEPT !.timelineItems =
                                  [i \in 1..Len(@) |->
                                      [@[i] EXCEPT !.target =
                                          IF TargetIsPaused(@) THEN TargetResume(@, now) ELSE @]]]
             t3 == IF t2.autoUpdate THEN StartInternalLoop(t2, now, handle) ELSE t2
         IN  Emit(t3, "resume", 0)

\* Timeline.setAutoUpdate
SetAutoUpdate(tl, enabled) ==
    LET t1 == [tl EXCEPT !.autoUpdate = enabled]
    IN  IF ~enabled /\ t1.animFrameId.defined THEN CancelFrame(t1) ELSE t1

(***************************************************************************)
(* Timeline.update with a notification handler that calls stop() on the    *)
(* timeline while the update is in progress.  The handler is subscribed    *)
(* either to the timeline's `update` notification (k = 0), or to the       *)
(* `stop` notification of the target of entry k, which that target emits   *)
(* as the last step of the loop body when the loop stops it.               *)
(***************************************************************************)
\* how many notifications of a topic a target has emitted
Emitted(t, topic) == Cardinality({n \in 1..Len(t.log) : t.log[n].topic = topic})

\* Timeline._updateItems: the loop runs through entry k, the handler of
\* entry k's `stop` notification calls stop(), and the loop runs on
UpdateItemsStopping(tl, now, k) ==
    LET upTo == [tl EXCEPT !.timelineItems =
                     [i \in 1..Len(@) |->
                         IF i <= k THEN UpdateItem(@[i], tl.currentTime, now) ELSE @[i]]]
        fired == /\ k >= 1
                 /\ Emitted(upTo.timelineItems[k].target, "stop")
                        > Emitted(tl.timelineItems[k].target, "stop")
        stopped == IF fired THEN TimelineStop(upTo) ELSE upTo
    IN  [stopped EXCEPT !.timelineItems =
            [i \in 1..Len(@) |->
                IF i > k THEN UpdateItem(@[i], stopped.currentTime, now) ELSE @[i]]]

\* Timeline.update(time?) with the handler
UpdateStopping(tl, time, now, k) ==
    IF ~tl.isPlaying \/ tl.isPaused THEN tl
    ELSE LET t1 == IF time.defined
                   THEN [tl EXCEPT !.currentTime = time.value * tl.timeScale]
                   ELSE [tl EXCEPT !.currentTime = @ + (now - tl.lastUpdateTime) * tl.timeScale,
                                   !.lastUpdateTime = now]
             t2 == Emit(t1, "update", t1.currentTime)
             t3 == UpdateItemsStopping(IF k = 0 THEN TimelineStop(t2) ELSE t2,
                                       OrElse(time, now), k)
         IN  IF t3.currentTime >= t3.duration
             THEN Emit([t3 EXCEPT !.isPlaying = FALSE], "complete", 0)
             ELSE t3

(***************************************************************************)
(* Vec3: the static operations with an optional `out`, and the instance    *)
(* operations, on objects that the caller may pass more than once.         *)
(* A component is a multiple of 1/Unit, held as the integer count of       *)
(* units; `objs` maps an object reference to the object's components.      *)
(***************************************************************************)
Unit == 2

\* the components a caller builds vectors from: 0, 1/Unit, Unit and the
\* negatives
Comps == {0} \cup {s * c : s \in {-1, 1}, c \in {1, Unit * Unit}}
Vec == [x : Comps, y : Comps, z : Comps]

\* the objects of a caller, and the literal a call without `out` returns
Refs == {"a", "b"}
Literal == "literal"

\* EPSILON of ./common: positive and smaller than the grid step
EPSILON == 1
Abs(c) == IF c < 0 THEN -c ELSE c

\* a * b and 1 / c on the grid
Mul(a, b) == (a * b) \div Unit
Recip(c) == (Unit * Unit) \div c

\* Math.cos and Math.sin of a number of quarter turns, to the grid
Angles == 0..3
Cos(angle) == CASE angle = 0 -> Unit [] angle = 2 -> -Unit [] OTHER -> 0
Sin(angle) == CASE angle = 1 -> Unit [] angle = 3 -> -Unit [] OTHER -> 0

\* a call without `out`
NoOut == [defined |-> FALSE, value |-> Literal]

\* the outcome of a call: the objects after it, and what it returned
Returned(objs, ref, value) == [objs |-> objs, threw |-> FALSE, ref |-> ref, value |-> value]
Thrown(objs) == [objs |-> objs, threw |-> TRUE]

\* Vec3.add(a, b, out?)
StaticAdd(objs, a, b, out) ==
    IF out.defined
    THEN LET o1 == [objs EXCEPT ![out.value].x = objs[a].x + objs[b].x]
             o2 == [o1 EXCEPT ![out.value].y = o1[a].y + o1[b].y]
             o3 == [o2 EXCEPT ![out.value].z = o2[a].z + o2[b].z]
         IN  Returned(o3, out.value, o3[out.value])
    ELSE Returned(objs, Literal,
                  [x |-> objs[a].x + objs[b].x,
                   y |-> objs[a].y + objs[b].y,
                   z |-> objs[a].z + objs[b].z])

\* Vec3.rotateX(v, angle, out?)
StaticRotateX(objs, v, angle, out) ==
    IF out.defined
    THEN LET o1 == [objs EXCEPT ![out.value].x = objs[v].x]
             o2 == [o1 EXCEPT ![out.value].y =
                        Mul(o1[v].y, Cos(angle)) - Mul(o1[v].z, Sin(angle))]
             o3 == [o2 EXCEPT ![out.value].z =
                        Mul(o2[v].y, Sin(angle)) + Mul(o2[v].z, Cos(angle))]
         IN  Returned(o3, out.value, o3[out.value])
    ELSE Returned(objs, Literal,
                  [x |-> objs[v].x,
                   y |-> Mul(objs[v].y, Cos(angle)) - Mul(objs[v].z, Sin(angle)),
                   z |-> Mul(objs[v].y, Sin(angle)) + Mul(objs[v].z, Cos(angle))])

\* Vec3.rotateY(v, angle, out?)
StaticRotateY(objs, v, angle, out) ==
    IF out.defined
    THEN LET o1 == [objs EXCEPT ![out.value].x =
                        Mul(objs[v].x, Cos(angle)) + Mul(objs[v].z, Sin(angle))]
             o2 == [o1 EXCEPT ![out.value].y = o1[v].y]
             o3 == [o2 EXCEPT ![out.value].z =
                        Mul(-o2[v].x, Sin(angle)) + Mul(o2[v].z, Cos(angle))]
         IN  Returned(o3, out.value, o3[out.value])
    ELSE Returned(objs, Literal,
                  [x |-> Mul(objs[v].x, Cos(angle)) + Mul(objs[v].z, Sin(angle)),
                   y |-> objs[v].y,
                   z |-> Mul(-objs[v].x, Sin(angle)) + Mul(objs[v].z, Cos(angle))])

\* Vec3.rotateZ(v, angle, out?)
StaticRotateZ(objs, v, angle, out) ==
    IF out.defined
    THEN LET o1 == [objs EXCEPT ![out.value].x =
                        Mul(objs[v].x, Cos(angle)) - Mul(objs[v].y, Sin(angle))]
             o2 == [o1 EXCEPT ![out.value].y =
                        Mul(o1[v].x, Sin(angle)) + Mul(o1[v].y, Cos(angle))]
             o3 == [o2 EXCEPT ![out.value].z = o2[v].z]
         IN  Returned(o3, out.value, o3[out.value])
    ELSE Returned(objs, Literal,
                  [x |-> Mul(objs[v].x, Cos(angle)) - Mul(objs[v].y, Sin(angle)),
                   y |-> Mul(objs[v].x, Sin(angle)) + Mul(objs[v].y, Cos(angle)),
                   z |-> objs[v].z])

\* one component of inverseSafe
SafeRecip(c, defaultValue) == IF Abs(c) < EPSILON THEN defaultValue ELSE Recip(c)

\* Vec3.inverseSafe(v, out?, defaultValue)
StaticInverseSafe(objs, v, out, defaultValue) ==
    LET vx == objs[v].x
        vy == objs[v].y
        vz == objs[v].z
        inv == [x |-> SafeRecip(vx, defaultValue),
                y |-> SafeRecip(vy, defaultValue),
                z |-> SafeRecip(vz, defaultValue)]
    IN  IF Abs(vx) < EPSILON \/ Abs(vy) < EPSILON \/ Abs(vz) < EPSILON
        THEN Thrown(objs)
        ELSE IF out.defined
        THEN Returned([objs EXCEPT ![out.value] = inv], out.value, inv)
        ELSE Returned(objs, Literal, inv)

\* v.inverseSafe(defaultValue)
InstanceInverseSafe(objs, this, defaultValue) ==
    LET inv == [x |-> SafeRecip(objs[this].x, defaultValue),
                y |-> SafeRecip(objs[this].y, defaultValue),
                z |-> SafeRecip(objs[this].z, defaultValue)]
    IN  Returned([objs EXCEPT ![this] = inv], this, inv)

\* v.rotateX(angle), v.rotateY(angle), v.rotateZ(angle)
InstanceRotateX(objs, this, angle) ==
    LET y == Mul(objs[this].y, Cos(angle)) - Mul(objs[this].z, Sin(angle))
        z == Mul(objs[this].y, Sin(angle)) + Mul(objs[this].z, Cos(angle))
    IN  Returned([objs EXCEPT ![this].y = y, ![this].z = z], this,
                 [objs[this] EXCEPT !.y = y, !.z = z])

InstanceRotateY(objs, this, angle) ==
    LET x == Mul(objs[this].x, Cos(angle)) + Mul(objs[this].z, Sin(angle))
        z == Mul(-objs[this].x, Sin(angle)) + Mul(objs[this].z, Cos(angle))
    IN  Returned([objs EXCEPT ![this].x = x, ![this].z = z], this,
                 [objs[this] EXCEPT !.x = x, !.z = z])

InstanceRotateZ(objs, this, angle) ==
    LET x == Mul(objs[this].x, Cos(angle)) - Mul(objs[this].y, Sin(angle))
        y == Mul(objs[this].x, Sin(angle)) + Mul(objs[this].y, Cos(angle))
    IN  Returned([objs EXCEPT ![this].x = x, ![this].y = y], this,
                 [objs[this] EXCEPT !.x = x, !.y = y])

\* the caller's objects before any call
NoVectors == [r \in Refs |-> [x |-> 0, y |-> 0, z |-> 0]]

(***************************************************************************)
(* The program: one root timeline, its host (clock and frame callbacks),   *)
(* and the caller                                                          *)
(***************************************************************************)
VARIABLES
    tl,          \* the root Timeline
    now,         \* performance.now()
    rafPending,  \* handles of the frame callbacks the host still holds
    run,         \* history: since the last start() took effect the caller has
                 \* only called update(time) with non-decreasing times
    tw,          \* a tween that the caller drives itself, outside any timeline
    vecs         \* the Vec3 objects of the caller, by reference

vars == <<tl, now, rafPending, run, tw, vecs>>

\* the explicit times a caller passes to update
Times == {k * TimeStep : k \in 0..MaxTick}

\* the tweens a caller builds: a subject {x: 0} animated to {x: 100}
Subject == [x |-> Num(0)]
EndValues == [x |-> Num(100)]
NoValues == [p \in {} |-> Undefined]

TweenOf(duration, repeat, yoyo) ==
    NewTween(Subject, NoValues, EndValues, duration, repeat, yoyo, "Linear")

\* every tween of the given durations (yoyo only matters to a tween that repeats)
TweensOf(durations) ==
    {TweenOf(d, 0, FALSE) : d \in durations}
        \cup {TweenOf(d, r, y) : d \in durations, r \in 1..MaxRepeat, y \in BOOLEAN}

\* the tweens added to a timeline that is only built, and to one that is played
Tweens == TweensOf({TimeStep, 2 * TimeStep})
PlayedTweens == TweensOf({2 * TimeStep})

\* a timeline holding one tween, added as an entry of the root timeline
NestedTimeline ==
    TimelineAdd(NewTimeline, TweenOf(TimeStep, 0, FALSE),
                [offset |-> None, position |-> None], 1)

\* the placement options a caller passes to add
Positions == {None, Some(-2 * TimeStep), Some(2 * TimeStep)}
Offsets == {None, Some(-TimeStep)}
Options == [offset : Offsets, position : Positions]
PlayedOptions == [offset : {None}, position : {None, Some(0), Some(2 * TimeStep)}]

\* the target's logs are emptied when an external call begins
RECURSIVE ClearLogs(_)
ClearLogs(t) ==
    IF IsTweenCore(t) THEN [t EXCEPT !.calls = <<>>, !.log = <<>>]
    ELSE [t EXCEPT !.calls = <<>>, !.log = <<>>, !.visited = <<>>,
                   !.rafRequested = {}, !.rafCancelled = {},
                   !.timelineItems =
                       [i \in 1..Len(@) |-> [@[i] EXCEPT !.target = ClearLogs(@)]]]

\* the handle the next requestAnimationFrame returns: one that is neither
\* pending nor still held by the timeline (the host never reuses a handle;
\* only the equality of handles matters to the program)
RafNext ==
    LET used == rafPending \cup {tl.animFrameId.value}
    IN  CHOOSE h \in 1..(Cardinality(used) + 1) : h \notin used

\* the host's frame callbacks after a call that left the timeline as `t`,
\* `pending` being the callbacks held when the call began
Host(t, pending) ==
    rafPending' = (pending \cup t.rafRequested) \ t.rafCancelled

Init ==
    /\ tl = NewTimeline
    /\ now = 0
    /\ rafPending = {}
    /\ run = FALSE
    /\ tw = TweenOf(TimeStep, 0, FALSE)
    /\ vecs = NoVectors

\* add(target, options), the target and the options drawn from the given sets
Add(targets, options) ==
    /\ Len(tl.timelineItems) < MaxItems
    /\ \E o \in options, t \in targets :
          tl' = TimelineAdd(ClearLogs(tl), t, o, Len(tl.timelineItems) + 1)
    /\ run' = FALSE
    /\ UNCHANGED <<now, rafPending, tw, vecs>>

\* add of a tween, and of another timeline
AddTween == Add(Tweens, Options)
AddTimeline == Add({NestedTimeline}, Options)
AddPlayedTween == Add(PlayedTweens, PlayedOptions)
AddPlayedTimeline == Add({NestedTimeline}, PlayedOptions)

\* start(time) with an explicit time
StartAt ==
    /\ tl' = TimelineStart(ClearLogs(tl), Some(0), now, RafNext)
    /\ run' = ~tl.isPlaying
    /\ Host(tl', rafPending)
    /\ UNCHANGED <<now, tw, vecs>>

Stop ==
    /\ tl' = TimelineStop(ClearLogs(tl))
    /\ run' = FALSE
    /\ Host(tl', rafPending)
    /\ UNCHANGED <<now, tw, vecs>>

Pause ==
    /\ tl' = TimelinePause(ClearLogs(tl))
    /\ run' = FALSE
    /\ Host(tl', rafPending)
    /\ UNCHANGED <<now, tw, vecs>>

Resume ==
    /\ tl' = TimelineResume(ClearLogs(tl), now, RafNext)
    /\ run' = FALSE
    /\ Host(tl', rafPending)
    /\ UNCHANGED <<now, tw, vecs>>

\* update(time) with an explicit time
UpdateAt ==
    /\ \E time \in Times :
          /\ tl' = TimelineUpdate(ClearLogs(tl), Some(time), now)
          /\ run' = (run /\ time * tl.timeScale >= tl.currentTime)
    /\ Host(tl', rafPending)
    /\ UNCHANGED <<now, tw, vecs>>

\* a caller that builds a timeline and plays it with explicit times
Next == AddPlayedTween \/ AddPlayedTimeline \/ StartAt \/ Stop \/ Pause \/ Resume \/ UpdateAt

Spec == Init /\ [][Next]_vars

\* a caller that only builds a timeline
NextAdd == AddTween \/ AddTimeline

SpecAdd == Init /\ [][NextAdd]_vars

(***************************************************************************)
(* Playback against the host clock: start() and update() without a time,   *)
(* and the self-driving loop                                               *)
(***************************************************************************)
\* the tweens and time scales of a clock-driven timeline
ClockTweens == {TweenOf(2 * TimeStep, 0, FALSE)}
ClockOptions == [offset : {None}, position : {None}]
TimeScales == {1, 2}

AddClockTween == Add(ClockTweens, ClockOptions)

\* the host clock advances
Tick ==
    /\ now < MaxTick * TimeStep
    /\ now' = now + TimeStep
    /\ UNCHANGED <<tl, rafPending, run, tw, vecs>>

\* setAutoUpdate(enabled)
AutoUpdate ==
    /\ \E enabled \in BOOLEAN : tl' = SetAutoUpdate(ClearLogs(tl), enabled)
    /\ run' = FALSE
    /\ Host(tl', rafPending)
    /\ UNCHANGED <<now, tw, vecs>>

\* setTimeScale(scale)
TimeScale ==
    /\ \E scale \in TimeScales : tl' = SetTimeScale(ClearLogs(tl), scale)
    /\ run' = FALSE
    /\ UNCHANGED <<now, rafPending, tw, vecs>>

\* start() without a time
Start ==
    /\ tl' = TimelineStart(ClearLogs(tl), None, now, RafNext)
    /\ run' = FALSE
    /\ Host(tl', rafPending)
    /\ UNCHANGED <<now, tw, vecs>>

\* update() without a time
Update ==
    /\ tl' = TimelineUpdate(ClearLogs(tl), None, now)
    /\ run' = FALSE
    /\ Host(tl', rafPending)
    /\ UNCHANGED <<now, tw, vecs>>

\* the host runs a pending frame callback, () => this._internalUpdate()
Frame ==
    /\ \E h \in rafPending :
          /\ tl' = InternalUpdate(ClearLogs(tl), now, RafNext)
          /\ Host(tl', rafPending \ {h})
    /\ run' = FALSE
    /\ UNCHANGED <<now, tw, vecs>>

NextClock ==
    \/ AddClockTween \/ AutoUpdate \/ TimeScale \/ Tick \/ Frame
    \/ Start \/ StartAt \/ Update \/ Stop \/ Pause \/ Resume

SpecClock == Init /\ [][NextClock]_vars

(***************************************************************************)
(* A tween in isolation: the caller calls its lifecycle methods with       *)
(* explicit times and writes to its subject between the calls              *)
(***************************************************************************)
\* a tween of one path x, from the subject's value to the end value
TweenOn(from, to, repeat, yoyo, interpolation) ==
    NewTween([x |-> from], NoValues, [x |-> to], 2 * TimeStep, repeat, yoyo, interpolation)

\* a tween of one path x whose start tree is given: the subject's array has
\* the length of the end leaf, the start leaf another length
TweenFrom(from, to, interpolation) ==
    NewTween([x |-> Arr(<<0, 0>>)], [x |-> from], [x |-> to], 2 * TimeStep,
             0, FALSE, interpolation)

\* an end value whose distance from 1 is no number: the nearest numbers are
\* one below it and one above it
FarEnd == 2 ^ MantissaBits + 2

\* the tweens a caller drives in isolation: scalar, array and typed-array
\* leaves, with and without repeat, yoyo and a custom interpolation
IsolatedTweens ==
    {TweenOn(Num(0), Num(10), 0, FALSE, "Linear"),
     TweenOn(Num(1), Num(FarEnd), 0, FALSE, "Linear"),
     TweenOn(Arr(<<0, 0>>), Arr(<<10, 20>>), 0, FALSE, "Step")}
        \cup {TweenOn(Num(0), Num(10), r, y, "Linear") : r \in 1..MaxRepeat, y \in BOOLEAN}
        \cup {TweenOn(Arr(<<0, 0>>), Arr(<<10, 20>>), r, FALSE, "Linear") : r \in 0..MaxRepeat}
        \cup {TweenOn(Typed("Uint8Array", <<0, 0>>), Typed("Uint8Array", <<10, 20>>),
                       r, FALSE, "Linear") : r \in 0..MaxRepeat}
        \cup {TweenOn(Typed("Uint8Array", <<0, 0>>), Typed("Uint8Array", <<3, 6>>),
                       0, FALSE, "Linear"),
              TweenOn(Typed("Float64Array", <<0, 0>>), Typed("Float64Array", <<10, 20>>),
                       0, FALSE, "Linear")}
        \cup {TweenFrom(Arr(s), Arr(<<10, 20>>), "Linear") : s \in {<<2>>, <<2, 0, 8>>}}
        \cup {TweenOn(Num(0), Num(10), 0, FALSE, "Step"),
              TweenOn(Arr(<<0>>), Arr(<<10>>), 0, FALSE, "Step"),
              TweenFrom(Arr(<<2>>), Arr(<<10, 20>>), "Step")}

\* the value a caller writes over a subject's numbers (an even distance from
\* the end values, so that half the way from it is an integer)
Drifted == 4

ClearTween(t) == [t EXCEPT !.calls = <<>>, !.log = <<>>]

InitTween ==
    /\ tl = NewTimeline
    /\ now = 0
    /\ rafPending = {}
    /\ run = FALSE
    /\ tw \in IsolatedTweens
    /\ vecs = NoVectors

StartTween ==
    /\ \E time \in Times : tw' = TweenStart(ClearTween(tw), time)
    /\ UNCHANGED <<tl, now, rafPending, run, vecs>>

StopTween ==
    /\ tw' = TweenStop(ClearTween(tw))
    /\ UNCHANGED <<tl, now, rafPending, run, vecs>>

PauseTween ==
    /\ tw' = TweenPause(ClearTween(tw))
    /\ UNCHANGED <<tl, now, rafPending, run, vecs>>

ResumeTween ==
    /\ tw' = TweenResume(ClearTween(tw))
    /\ UNCHANGED <<tl, now, rafPending, run, vecs>>

UpdateTween ==
    /\ \E time \in Times : tw' = TweenUpdate(ClearTween(tw), time)
    /\ UNCHANGED <<tl, now, rafPending, run, vecs>>

\* the caller writes to the subject: a number is assigned, the elements of
\* an array are assigned in place, which also changes the start tree where
\* it holds the same array, and the snapshot where it holds that array too
WriteSubject ==
    /\ \E p \in tw.objectProps :
          LET leaf == [tw.object[p] EXCEPT !.v = [i \in 1..Len(@) |-> Drifted]]
          IN  tw' = [ClearTween(tw) EXCEPT
                        !.object[p] = leaf,
                        !.valuesStart[p] = IF p \in tw.sharedProps THEN leaf ELSE @,
                        !.valuesStartRepeat[p] =
                            IF p \in tw.sharedProps \cap tw.snapshotProps THEN leaf ELSE @]
    /\ UNCHANGED <<tl, now, rafPending, run, vecs>>

\* the caller writes to an array it gave as a start value, in place: the
\* start tree holds that array, and so may the subject and the snapshot
WriteStart ==
    /\ \E p \in tw.objectProps :
          LET leaf == [tw.valuesStart[p] EXCEPT !.v = [i \in 1..Len(@) |-> Drifted]]
          IN  /\ IsArray(leaf) \/ IsView(leaf)
              /\ tw' = [ClearTween(tw) EXCEPT
                            !.valuesStart[p] = leaf,
                            !.object[p] = IF p \in tw.sharedProps THEN leaf ELSE @,
                            !.valuesStartRepeat[p] =
                                IF p \in tw.snapshotProps THEN leaf ELSE @]
    /\ UNCHANGED <<tl, now, rafPending, run, vecs>>

NextTween ==
    \/ StartTween \/ StopTween \/ PauseTween \/ ResumeTween \/ UpdateTween
    \/ WriteSubject \/ WriteStart

SpecTween == InitTween /\ [][NextTween]_vars

(***************************************************************************)
(* The initialization of a tween: a tween configured with any subject,     *)
(* start tree and end tree over two paths resolves its start and end       *)
(* values                                                                  *)
(***************************************************************************)
Paths == {"x", "y"}

\* what a caller has at one path of the subject, of the start tree and of
\* the end tree (Undefined: the path is absent)
SubjectLeaves == {Undefined, Num(1), Arr(<<1, 2>>), Typed("Uint8Array", <<1, 2>>)}
StartLeaves == {Undefined, Num(2), Arr(<<3>>)}
EndLeaves == {Undefined, Num(10), Arr(<<10, 20>>), Typed("Uint8Array", <<10, 20>>)}

\* the tree that holds the leaves of f that are present
Tree(f) == [p \in {q \in DOMAIN f : ~IsUndefined(f[q])} |-> f[p]]

ConfiguredTweens ==
    {ConfiguredTween(Tree(o), Tree(s), Tree(e), 2 * TimeStep, 0, FALSE, "Linear") :
        o \in [Paths -> SubjectLeaves], s \in [Paths -> StartLeaves],
        e \in [Paths -> EndLeaves]}

InitConfigured ==
    /\ tl = NewTimeline
    /\ now = 0
    /\ rafPending = {}
    /\ run = FALSE
    /\ tw \in ConfiguredTweens
    /\ vecs = NoVectors

\* the tween resolves its start and end values, once: no path has been
\* discovered yet
Initialize ==
    /\ tw.objectProps = {}
    /\ tw' = Initialized(tw)
    /\ UNCHANGED <<tl, now, rafPending, run, vecs>>

SpecInit == InitConfigured /\ [][Initialize]_vars

(***************************************************************************)
(* Properties of Timeline.add                                              *)
(***************************************************************************)
Items == tl.timelineItems

RECURSIVE MaxEnd(_)
MaxEnd(items) ==
    IF Len(items) = 1 THEN items[1].end
    ELSE Max(items[Len(items)].end, MaxEnd(SubSeq(items, 1, Len(items) - 1)))

\* the entry that the n-th add created
Entry(t, n) == t.timelineItems[CHOOSE i \in 1..Len(t.timelineItems) : t.timelineItems[i].seq = n]

\* C4: getDuration() after an add is never below its value before the add.
C4_DurationMonotone == [][GetDuration(tl') >= GetDuration(tl)]_vars

\* an add whose entry ends before the current end left the duration alone
C4_Witness ==
    /\ Len(Items) = 2
    /\ Entry(tl, 2).end < Entry(tl, 1).end
    /\ GetDuration(tl) = Entry(tl, 1).end

\* C5 as stated: on a non-empty timeline, totalDuration is the maximum `end`
\* of the stored entries.
C5_DurationIsMaxEnd == Len(Items) > 0 => GetDuration(tl) = MaxEnd(Items)

\* C5, amended: on a non-empty timeline, totalDuration is the larger of 0
\* and the maximum `end` of the stored entries.
C5_DurationIsMaxEndOrZero == Len(Items) > 0 => GetDuration(tl) = Max(0, MaxEnd(Items))

\* every entry ends before time 0, and the duration is 0
C5_Witness == Len(Items) = 2 /\ MaxEnd(Items) < 0 /\ GetDuration(tl) = 0

\* C6: an add with options.position places the entry at position, whatever
\* options.offset is; an add without it places the entry at the duration
\* before the call plus options.offset (0 when absent).
PlacedAsAsked(targets) ==
    \A o \in Options, t \in targets :
        (/\ Len(Items) < MaxItems
         /\ tl' = TimelineAdd(ClearLogs(tl), t, o, Len(Items) + 1))
        => Entry(tl', Len(Items) + 1).start =
               IF o.position.defined THEN o.position.value
               ELSE GetDuration(tl) + (IF o.offset.defined THEN o.offset.value ELSE 0)

C6_Placement == [][PlacedAsAsked(Tweens) /\ PlacedAsAsked({NestedTimeline})]_vars

\* the second entry sits at position 2 * TimeStep although the timeline
\* ended at TimeStep when it was added
C6_Witness ==
    /\ Len(Items) = 2
    /\ Entry(tl, 1).start = 0
    /\ Entry(tl, 1).end = TimeStep
    /\ Entry(tl, 2).start = 2 * TimeStep

\* what the claim calls target.duration and target.repeatCount
TargetDuration(t) == IF IsTweenCore(t) THEN t.duration ELSE GetDuration(t)
TargetRepeatCount(t) == IF IsTweenCore(t) THEN t.repeat ELSE 0

\* C7: for every entry, whatever its target is, originalDuration is
\* target.duration * (target.repeatCount + 1) and end is start + originalDuration.
C7_EntryWindow ==
    \A i \in 1..Len(Items) :
        /\ Items[i].originalDuration =
               TargetDuration(Items[i].target) * (TargetRepeatCount(Items[i].target) + 1)
        /\ Items[i].end = Items[i].start + Items[i].originalDuration

\* C8: the entries are in ascending `start` order, entries of equal start in
\* the order they were added.
C8_SortedStable ==
    \A i, j \in 1..Len(Items) :
        i < j => /\ Items[i].start <= Items[j].start
                 /\ Items[i].start = Items[j].start => Items[i].seq < Items[j].seq

\* two entries share a start and stand in the order they were added
C8_Witness ==
    /\ Len(Items) = 2
    /\ Items[1].start = Items[2].start
    /\ Items[1].seq = 1

(***************************************************************************)
(* Properties of playback with explicit times                              *)
(***************************************************************************)
\* the step is an update(time) call that the timeline does not ignore
UpdateTakesEffect == UpdateAt /\ tl.isPlaying /\ ~tl.isPaused

\* C1: an update that takes currentTime from before the window of an entry
\* whose tween does not repeat to strictly after the window's end leaves the
\* tween's subject equal to its end values.
C1_SkipLeavesEndValues ==
    [][\A i \in 1..Len(Items) :
          (/\ UpdateTakesEffect
           /\ IsTweenCore(Items[i].target)
           /\ Items[i].target.repeat = 0
           /\ tl.currentTime < Items[i].start
           /\ tl'.currentTime > Items[i].end)
          => tl'.timelineItems[i].target.object = Items[i].target.valuesEnd]_vars

\* one entry with window [2, 4] * TimeStep and duration 2 * TimeStep, end
\* value {x: 100}; update(5 * TimeStep) found it not playing, forced it
\* through start(0), update(originalDuration), stop(), and x is 100
C1_Witness ==
    /\ Len(Items) = 1
    /\ IsTweenCore(Items[1].target)
    /\ Items[1].target.repeat = 0
    /\ Items[1].start = 2 * TimeStep
    /\ Items[1].end = 4 * TimeStep
    /\ tl.currentTime = 5 * TimeStep
    /\ tl.log = <<Event("update", 5 * TimeStep), Event("complete", 0)>>
    /\ Items[1].target.calls =
           <<Event("start", 0), Event("update", 2 * TimeStep), Event("stop", 0)>>
    /\ NumOf(Items[1].target.object.x) = 100

\* the values a tween declared as its end, whichever way a yoyo cycle has
\* swapped the trees
DeclaredEnd(t) == IF t.reversed THEN t.valuesStart ELSE t.valuesEnd

\* the values the subject holds after all repeat + 1 cycles were played: the
\* declared end, or the declared start after an even number of yoyo cycles
CompletedValues(t) ==
    IF t.yoyo /\ (t.repeat + 1) % 2 = 0 THEN t.valuesStartRepeat ELSE DeclaredEnd(t)

\* C2: an update that puts currentTime strictly after the end of an entry
\* whose tween repeats leaves the subject at the tween's fully-completed
\* value and the tween stopped.
C2_RepeatingForcedToCompleted ==
    [][\A i \in 1..Len(Items) :
          (/\ UpdateTakesEffect
           /\ IsTweenCore(Items[i].target)
           /\ Items[i].target.repeat > 0
           /\ tl'.currentTime > Items[i].end)
          => /\ tl'.timelineItems[i].target.object = CompletedValues(Items[i].target)
             /\ tl'.timelineItems[i].target.status = "idle"]_vars

\* the values on the subjects that a timeline drives
RECURSIVE Subjects(_)
Subjects(t) ==
    [i \in 1..Len(t.timelineItems) |->
        IF IsTweenCore(t.timelineItems[i].target)
        THEN <<t.timelineItems[i].target.object>>
        ELSE Subjects(t.timelineItems[i].target)]

\* C3: after start() and any non-decreasing explicit update times, the
\* subjects' values after update(t2) are the same whether or not an
\* update(t1), t1 <= t2, was issued before it.
C3_FrameTimingIndependence ==
    run => \A t1, t2 \in Times :
               (tl.currentTime <= t1 * tl.timeScale /\ t1 <= t2)
               => Subjects(TimelineUpdate(TimelineUpdate(tl, Some(t1), now), Some(t2), now))
                      = Subjects(TimelineUpdate(tl, Some(t2), now))

\* C10: after stop() the timeline is neither playing nor paused, its
\* currentTime is 0, and no entry target is playing or paused.
C10_StopResets ==
    [][Stop => /\ ~tl'.isPlaying
               /\ ~tl'.isPaused
               /\ tl'.currentTime = 0
               /\ \A i \in 1..Len(tl'.timelineItems) :
                     /\ ~TargetIsPlaying(tl'.timelineItems[i].target)
                     /\ ~TargetIsPaused(tl'.timelineItems[i].target)]_vars

(***************************************************************************)
(* Properties of Timeline.start                                            *)
(***************************************************************************)
\* how many times a topic appears in a log
Count(log, topic) == Cardinality({k \in 1..Len(log) : log[k].topic = topic})

\* start() called stop() on every entry target, before any other call
StoppedEveryTarget(t) ==
    \A i \in 1..Len(t.timelineItems) :
        /\ Len(t.timelineItems[i].target.calls) >= 1
        /\ t.timelineItems[i].target.calls[1] = Event("stop", 0)

\* the timeline is as start() is said to leave it
StartedAtZero(t) == t.currentTime = 0 /\ t.isPlaying /\ ~t.isPaused

\* C9 as stated: start() on a timeline that is not playing sets currentTime
\* to 0, calls stop() on every entry target, makes the timeline playing and
\* not paused and notifies `start` exactly once; on a playing timeline it
\* changes nothing and notifies nothing.
C9_StartResets ==
    [][(Start \/ StartAt)
       => IF tl.isPlaying
          THEN tl' = ClearLogs(tl)
          ELSE /\ StartedAtZero(tl')
               /\ StoppedEveryTarget(tl')
               /\ Count(tl'.log, "start") = 1]_vars

(***************************************************************************)
(* Properties of Timeline.pause and Timeline.resume                        *)
(***************************************************************************)
\* an entry target is paused
PausedTarget(t) == IF IsTweenCore(t) THEN t.status = "paused" ELSE t.isPlaying /\ t.isPaused

\* the targets that received exactly the one call `method`, those that
\* received no call and did not change
OnlyCalled(before, after, method) == after.calls = <<Event(method, 0)>>
Untouched(before, after) == after = ClearLogs(before)

\* C11: pause() calls pause on the entry targets that are playing (whose
\* isPlaying() is true) and on no other, resume() calls resume on the entry
\* targets that are paused and on no other; a target that is not called
\* keeps its state.
C11_PauseResumeForwarding ==
    /\ (tl.isPlaying /\ ~tl.isPaused)
       => \A i \in 1..Len(Items) :
              IF TargetIsPlaying(Items[i].target)
              THEN OnlyCalled(Items[i].target,
                              TimelinePause(ClearLogs(tl)).timelineItems[i].target, "pause")
              ELSE Untouched(Items[i].target,
                             TimelinePause(ClearLogs(tl)).timelineItems[i].target)
    /\ tl.isPaused
       => \A i \in 1..Len(Items) :
              IF PausedTarget(Items[i].target)
              THEN OnlyCalled(Items[i].target,
                              TimelineResume(ClearLogs(tl), now, RafNext).timelineItems[i].target,
                              "resume")
              ELSE Untouched(Items[i].target,
                             TimelineResume(ClearLogs(tl), now, RafNext).timelineItems[i].target)

(***************************************************************************)
(* Properties of Timeline.update                                           *)
(***************************************************************************)
\* an update call notified `update` once, first, with the new currentTime
NotifiedUpdate(t) ==
    /\ Count(t.log, "update") = 1
    /\ t.log[1] = Event("update", t.currentTime)

\* the arguments of an update call: no time, or an explicit time
TimeArguments == {None} \cup {Some(time) : time \in Times}

\* C12: on a timeline that is playing, update(t) sets currentTime to
\* t * timeScale; update() without a time, called d after the previous update
\* call, adds d * timeScale to currentTime; both notify `update` once with
\* the new currentTime.
C12_ClockAdvance ==
    (tl.isPlaying /\ ~tl.isPaused)
    => /\ \A time \in Times :
              LET t1 == TimelineUpdate(ClearLogs(tl), Some(time), now)
              IN  t1.currentTime = time * tl.timeScale /\ NotifiedUpdate(t1)
       /\ \A previous \in TimeArguments, d \in {0, TimeStep} :
              LET t1 == TimelineUpdate(ClearLogs(tl), previous, now)
                  t2 == TimelineUpdate(ClearLogs(t1), None, now + d)
              IN  t1.isPlaying
                  => /\ t2.currentTime = t1.currentTime + d * tl.timeScale
                     /\ NotifiedUpdate(t2)

\* the calls an entry's target received in update(time), and the target then
CallsIn(time, i) == TimelineUpdate(ClearLogs(tl), Some(time), now).timelineItems[i].target.calls
TargetAfter(time, i) == TimelineUpdate(ClearLogs(tl), Some(time), now).timelineItems[i].target

\* currentTime after update(time)
TimeAfter(time) == time * tl.timeScale

\* C13: in an update that leaves start <= currentTime <= end, the entry's
\* target is called start(0) if and only if it was not playing, and then
\* update(currentTime - start), exactly once.
C13_InsideWindow ==
    (tl.isPlaying /\ ~tl.isPaused)
    => \A time \in Times, i \in 1..Len(Items) :
           (Items[i].start <= TimeAfter(time) /\ TimeAfter(time) <= Items[i].end)
           => CallsIn(time, i) =
                  IF TargetIsPlaying(Items[i].target)
                  THEN <<Event("update", TimeAfter(time) - Items[i].start)>>
                  ELSE <<Event("start", 0), Event("update", TimeAfter(time) - Items[i].start)>>

\* an update found the first entry playing at the end of its window and
\* the second entry, not playing, at the start of its window
C13_Witness ==
    /\ Len(Items) = 2
    /\ tl.log = <<Event("update", 2 * TimeStep)>>
    /\ Items[1].start = 0 /\ Items[1].end = 2 * TimeStep
    /\ Items[2].start = 2 * TimeStep /\ Items[2].end > 2 * TimeStep
    /\ Items[1].target.calls = <<Event("update", 2 * TimeStep)>>
    /\ Items[2].target.calls = <<Event("start", 0), Event("update", 0)>>

\* C14: in an update that leaves currentTime < start, the entry's target is
\* called stop() if it was playing, and is then not playing; a target that
\* was not playing receives no call.
C14_BeforeWindow ==
    (tl.isPlaying /\ ~tl.isPaused)
    => \A time \in Times, i \in 1..Len(Items) :
           TimeAfter(time) < Items[i].start
           => IF TargetIsPlaying(Items[i].target)
              THEN /\ CallsIn(time, i) = <<Event("stop", 0)>>
                   /\ ~TargetIsPlaying(TargetAfter(time, i))
              ELSE TargetAfter(time, i) = ClearLogs(Items[i].target)

\* an update that went back before the window of an entry stopped its
\* target, which was playing
C14_Witness ==
    /\ Len(tl.log) >= 1
    /\ tl.log[1].topic = "update"
    /\ \E i \in 1..Len(Items) :
          /\ tl.currentTime < Items[i].start
          /\ IsTweenCore(Items[i].target)
          /\ Items[i].target.calls = <<Event("stop", 0)>>
          /\ Items[i].target.log = <<Event("stop", 0)>>
          /\ Items[i].target.object.x # Items[i].target.valuesStart.x

\* the timeline after update(time)
Updated(time) == TimelineUpdate(ClearLogs(tl), Some(time), now)

\* C15: an update that leaves currentTime >= totalDuration ends with the
\* timeline not playing and `complete` notified once, after every entry was
\* processed; an update that leaves currentTime < totalDuration leaves the
\* timeline playing and notifies no `complete`; on a timeline that is not
\* playing, update does nothing, and so do stop, pause and resume: only
\* start makes it play again.
C15_Completion ==
    /\ (tl.isPlaying /\ ~tl.isPaused)
       => \A time \in Times :
              IF TimeAfter(time) >= GetDuration(tl)
              THEN /\ ~Updated(time).isPlaying
                   /\ Count(Updated(time).log, "complete") = 1
                   /\ Updated(time).log[Len(Updated(time).log)] = Event("complete", 0)
                   /\ Len(Updated(time).visited) = Len(Items)
                   /\ \A k \in 1..Len(Items) :
                          Updated(time).visited[k].emitted < Len(Updated(time).log)
              ELSE /\ Updated(time).isPlaying
                   /\ Count(Updated(time).log, "complete") = 0
    /\ ~tl.isPlaying
       => /\ \A time \in Times : Updated(time) = ClearLogs(tl)
          /\ ~TimelineStop(tl).isPlaying
          /\ ~TimelinePause(tl).isPlaying
          /\ ~TimelineResume(tl, now, RafNext).isPlaying
          /\ TimelineStart(tl, Some(0), now, RafNext).isPlaying

\* an update took a timeline of two entries to its total duration: both
\* entries were processed, then `complete` was notified
C15_Witness ==
    /\ Len(Items) = 2
    /\ ~tl.isPlaying
    /\ tl.currentTime = GetDuration(tl)
    /\ tl.log = <<Event("update", tl.currentTime), Event("complete", 0)>>
    /\ Len(tl.visited) = 2
    /\ \A i \in 1..2 : Items[i].target.calls # <<>>

\* C16: an update notifies `update` first, then processes every entry once,
\* in the order of ascending start and, among equal starts, of insertion,
\* and notifies `complete`, when it does, after the last entry.
C16_TickOrder ==
    (tl.isPlaying /\ ~tl.isPaused)
    => \A time \in Times :
           /\ Updated(time).log[1] = Event("update", TimeAfter(time))
           /\ Len(Updated(time).visited) = Len(Items)
           /\ \A k \in 1..Len(Items) : Updated(time).visited[k].emitted = 1
           /\ \A n \in 1..Len(Items) :
                  Cardinality({k \in 1..Len(Items) : Updated(time).visited[k].seq = n}) = 1
           /\ \A j, k \in 1..Len(Items) :
                  j < k => \/ Entry(tl, Updated(time).visited[j].seq).start
                                < Entry(tl, Updated(time).visited[k].seq).start
                           \/ /\ Entry(tl, Updated(time).visited[j].seq).start
                                    = Entry(tl, Updated(time).visited[k].seq).start
                              /\ Updated(time).visited[j].seq < Updated(time).visited[k].seq
           /\ \A n \in 2..Len(Updated(time).log) :
                  Updated(time).log[n] = Event("complete", 0) /\ n = 2

\* an update notified `update` and then processed two entries, first the
\* one that was added last and starts first
C16_Witness ==
    /\ Len(Items) = 2
    /\ Items[1].start < Items[2].start
    /\ tl.log = <<Event("update", Items[2].start)>>
    /\ tl.visited = <<[seq |-> 2, emitted |-> 1], [seq |-> 1, emitted |-> 1]>>
    /\ \A i \in 1..2 : Items[i].target.calls # <<>>

(***************************************************************************)
(* Lifecycle calls that do not apply                                       *)
(***************************************************************************)
\* the timeline at the beginning of a call
Quiet == ClearLogs(tl)

\* the calls that do not apply to a tween in status t.status leave it as it
\* is and notify nothing; a second stop() changes nothing, a second pause()
\* notifies nothing
TweenNoOps(t) ==
    /\ t.status = "idle" => TweenStop(t) = t
    /\ t.status # "playing" => TweenPause(t) = t
    /\ t.status # "paused" => TweenResume(t) = t
    /\ t.status = "playing" => \A time \in Times : TweenStart(t, time) = t
    /\ t.status # "playing" => \A time \in Times : TweenUpdate(t, time) = t
    /\ TweenStop(ClearTween(TweenStop(t))) = ClearTween(TweenStop(t))
    /\ Count(TweenPause(TweenPause(t)).log, "pause") = (IF t.status = "playing" THEN 1 ELSE 0)

\* C17: stop() on a timeline that is not playing, pause() on one that is
\* not playing or is paused, resume() on one that is not paused, start() on
\* one that is playing and update() on one that is not playing or is paused
\* change nothing and notify nothing; stop(); stop() ends as stop() does and
\* pause(); pause() notifies `pause` once; the same holds for every tween.
C17_NoOps ==
    /\ ~tl.isPlaying => TimelineStop(Quiet) = Quiet
    /\ (~tl.isPlaying \/ tl.isPaused)
       => /\ TimelinePause(Quiet) = Quiet
          /\ TimelineUpdate(Quiet, None, now) = Quiet
          /\ \A time \in Times : TimelineUpdate(Quiet, Some(time), now) = Quiet
    /\ ~tl.isPaused => TimelineResume(Quiet, now, RafNext) = Quiet
    /\ tl.isPlaying
       => /\ TimelineStart(Quiet, None, now, RafNext) = Quiet
          /\ \A time \in Times : TimelineStart(Quiet, Some(time), now, RafNext) = Quiet
    /\ TimelineStop(ClearLogs(TimelineStop(Quiet))) = ClearLogs(TimelineStop(Quiet))
    /\ Count(TimelinePause(TimelinePause(Quiet)).log, "pause")
           = (IF tl.isPlaying /\ ~tl.isPaused THEN 1 ELSE 0)
    /\ \A i \in 1..Len(Items) :
           IsTweenCore(Items[i].target) => TweenNoOps(ClearTween(Items[i].target))

\* a paused timeline of a paused tween and a completed one, after a call
\* that left no trace
C17_Witness ==
    /\ tl.isPlaying /\ tl.isPaused
    /\ tl.log = <<>>
    /\ Len(Items) = 2
    /\ \A i \in 1..2 : IsTweenCore(Items[i].target) /\ Items[i].target.calls = <<>>
    /\ \E i, j \in 1..2 : Items[i].target.status = "paused" /\ Items[j].target.status = "completed"

(***************************************************************************)
(* Properties of a tween in isolation                                      *)
(***************************************************************************)
\* the progress ratios 0 and 1
AtStart == [num |-> 0, den |-> 1]
AtEnd == [num |-> 1, den |-> 1]

\* C18: at progress 0 the value written to the subject at every path is
\* the value of the start tree, at progress 1 the value of the end tree,
\* exactly, for a scalar leaf and for every element of an array leaf.
C18_BoundaryExact ==
    \A p \in tw.objectProps :
        /\ UpdateProperties(tw, AtStart).object[p] = tw.valuesStart[p]
        /\ UpdateProperties(tw, AtEnd).object[p] = tw.valuesEnd[p]

\* the times at which update finds the tween at progress 1
Arrivals == {time \in Times : time - tw.startTime >= tw.duration}

\* the tween after update(time)
TweenAfter(time) == TweenUpdate(ClearTween(tw), time)

\* C19: on a tween of repeat 1 with yoyo, from {x: 0} to {x: 10}, the first
\* arrival at progress 1 swaps the start tree and the end tree and flips
\* `reversed`, and the next cycle writes x = 10 - 10 * progress; the second
\* arrival leaves x at 0 and the tween completed.
C19_YoyoCycle ==
    (tw.yoyo /\ tw.repeat = 1 /\ tw.status = "playing")
    => \A time \in Arrivals :
           IF tw.repeatsRemaining = 1
           THEN /\ TweenAfter(time).valuesStart = tw.valuesEnd
                /\ TweenAfter(time).valuesEnd = tw.valuesStart
                /\ TweenAfter(time).reversed = ~tw.reversed
                /\ TweenAfter(time).status = "playing"
                /\ \A later \in Times :
                       LET progress == Progress(later - time, tw.duration)
                       IN  NumOf(TweenUpdate(TweenAfter(time), later).object.x) * progress.den
                               = 10 * (progress.den - progress.num)
           ELSE /\ TweenAfter(time).object.x = Num(0)
                /\ TweenAfter(time).status = "completed"
                /\ TweenAfter(time).log = <<Event("update", time), Event("complete", 0)>>

\* the second arrival at progress 1 has completed the tween, with x at 0
C19_Witness ==
    /\ tw.yoyo /\ tw.repeat = 1 /\ tw.reversed
    /\ tw.repeatsRemaining = 0
    /\ tw.status = "completed"
    /\ tw.object.x = Num(0)
    /\ tw.valuesStart.x = Num(10)
    /\ Len(tw.log) = 2 /\ tw.log[2] = Event("complete", 0)

\* C20: a cycle reset of a tween without yoyo sets every path of the
\* subject to the start value resolved at initialization and makes the start
\* tree equal to those values, whatever the subject and the start tree
\* held before.
C20_ResetRestoresStart ==
    (~tw.yoyo /\ tw.repeatsRemaining > 0 /\ tw.status = "playing")
    => \A time \in Arrivals :
           /\ TweenAfter(time).repeatsRemaining = tw.repeatsRemaining - 1
           /\ TweenAfter(time).valuesStart = tw.declaredStart
           /\ \A p \in tw.objectProps : TweenAfter(time).object[p] = tw.declaredStart[p]

\* a tween of an array leaf has gone through a cycle reset: the subject
\* holds the declared start values, in the array of the new start tree
C20_Witness ==
    /\ ~tw.yoyo /\ tw.repeat > 0
    /\ tw.repeatsRemaining = tw.repeat - 1
    /\ tw.status = "playing"
    /\ tw.log = <<Event("update", tw.startTime)>>
    /\ tw.startTime > 0
    /\ IsArray(tw.object.x)
    /\ tw.sharedProps = {"x"}
    /\ tw.object = tw.declaredStart

\* the subject and the start tree of a playing tween have drifted from the
\* declared start values while a repeat is left
C20_Drifted ==
    /\ ~tw.yoyo /\ tw.repeatsRemaining > 0 /\ tw.status = "playing"
    /\ tw.object.x.v = <<Drifted, Drifted>>
    /\ tw.valuesStart.x.v = <<Drifted, Drifted>>
    /\ Arrivals # {}

\* the tween after start(from) and then k updates, each at the end of the
\* cycle that is running
RECURSIVE AfterArrivals(_, _, _)
AfterArrivals(t, from, k) ==
    IF k = 0 THEN TweenStart(ClearTween(t), from)
    ELSE TweenUpdate(AfterArrivals(t, from, k - 1), from + k * t.duration)

\* the cycle-reset protocol has run once on `before`
ResetOnce(before, after) ==
    IF before.yoyo
    THEN /\ after.reversed = ~before.reversed
         /\ after.valuesStart = before.valuesEnd
         /\ after.valuesEnd = before.valuesStart
    ELSE /\ after.valuesStart = before.declaredStart
         /\ after.object = before.declaredStart

Ratios == {Progress(elapsed, tw.duration) : elapsed \in Times}

\* the leaves of path p in the start tree, the end tree and the subject
\* after _updateProperties(progress)
StartLeaf(p) == GetPropValue(tw.valuesStart, p)
EndLeaf(p) == GetPropValue(tw.valuesEnd, p)
Written(p, progress) == UpdateProperties(tw, progress).object[p]

\* both leaves are arrays, or both are typed arrays
Composite(p) ==
    \/ IsArray(EndLeaf(p)) /\ IsArray(StartLeaf(p))
    \/ IsView(EndLeaf(p)) /\ IsView(StartLeaf(p))

\* start[i], or 0 when the start leaf is shorter
Padded(p, i) == IF i <= Len(StartLeaf(p).v) THEN StartLeaf(p).v[i] ELSE 0

\* n is s + (e - s) * progress
IsLerp(n, s, e, progress) == n * progress.den = s * progress.den + (e - s) * progress.num

\* n is the integer part of s + (e - s) * progress, none of them negative
IsLerpFloor(n, s, e, progress) ==
    /\ n * progress.den <= s * progress.den + (e - s) * progress.num
    /\ (n + 1) * progress.den > s * progress.den + (e - s) * progress.num

C23_CustomScope ==
    tw.interpolation # "Linear"
    => \A p \in tw.objectProps, progress \in Ratios :
           IF Composite(p) /\ Len(EndLeaf(p).v) > 1
           THEN /\ Len(InterpolationCalls(tw, p, progress)) = Len(EndLeaf(p).v)
                /\ \A i \in 1..Len(EndLeaf(p).v) :
                      /\ InterpolationCalls(tw, p, progress)[i] =
                             [values |-> <<Padded(p, i), EndLeaf(p).v[i]>>,
                              progress |-> progress]
                      /\ Written(p, progress).v[i] =
                             Interpolate(tw.interpolation, Padded(p, i),
                                         EndLeaf(p).v[i], progress)
           ELSE /\ InterpolationCalls(tw, p, progress) = <<>>
                /\ Composite(p) \/ IsNumber(EndLeaf(p))
                   => /\ Len(Written(p, progress).v) = Len(EndLeaf(p).v)
                      /\ \A i \in 1..Len(EndLeaf(p).v) :
                            IsLerp(Written(p, progress).v[i],
                                   Padded(p, i), EndLeaf(p).v[i], progress)

\* half way through, a tween with a custom function that holds the first
\* control value has written 5 to a scalar leaf or to an array leaf of
\* length 1, and left a longer array leaf at its start values
C23_Witness ==
    /\ tw.interpolation = "Step"
    /\ tw.status = "playing"
    /\ tw.log = <<Event("update", tw.startTime + TimeStep)>>
    /\ tw.object.x \in {Num(5), Arr(<<5>>), Arr(<<2, 0>>)}

(***************************************************************************)
(* Properties of the initialization of a tween                             *)
(***************************************************************************)
\* the paths that initialization discovers, and the leaves of a path before
\* initialization and after it
Discovered == CollectProps(tw.valuesEnd) \cup CollectProps(tw.valuesStart)
GivenStart(p) == GetPropValue(tw.valuesStart, p)
GivenEnd(p) == GetPropValue(tw.valuesEnd, p)
GivenSubject(p) == GetPropValue(tw.object, p)
Resolved == InitStartEndValues(tw)

\* the default start value for an end leaf
DefaultFor(end) ==
    IF IsArray(end) THEN Arr([i \in 1..Len(end.v) |-> 0])
    ELSE IF IsView(end) THEN Typed(end.ctor, [i \in 1..Len(end.v) |-> 0])
    ELSE Num(0)

\* C24: at initialization, for every discovered path: a start tree without
\* a value takes the subject's value when it has one, else a default (0 for
\* a numeric end, zeros of the end leaf's length and type for a composite
\* end); an end tree without a value takes the subject's value; a subject
\* without a value receives the resolved start value; a value the subject
\* has is not overwritten.
C24_Completion ==
    /\ Resolved.objectProps = Discovered
    /\ \A p \in Discovered :
          /\ IsUndefined(GivenStart(p))
             => Resolved.valuesStart[p] =
                    IF ~IsUndefined(GivenSubject(p)) THEN GivenSubject(p)
                    ELSE DefaultFor(GivenEnd(p))
          /\ IsUndefined(GivenEnd(p)) => Resolved.valuesEnd[p] = GivenSubject(p)
          /\ IsUndefined(GivenSubject(p)) => Resolved.object[p] = Resolved.valuesStart[p]
    /\ \A p \in DOMAIN tw.object : Resolved.object[p] = tw.object[p]

\* initialization has run on a subject without x and with y, a start tree
\* without either and an end tree with both: x started from the default on
\* the subject and in the start tree, y from the subject's value
C24_Witness ==
    /\ tw.objectProps = {"x", "y"}
    /\ tw.valuesEnd = [x |-> Arr(<<10, 20>>), y |-> Num(10)]
    /\ tw.valuesStart = [x |-> Arr(<<0, 0>>), y |-> Num(1)]
    /\ tw.object = [x |-> Arr(<<0, 0>>), y |-> Num(1)]

(***************************************************************************)
(* Properties of the start snapshot                                        *)
(***************************************************************************)
\* C25: the snapshot _valuesStartRepeat is never changed after it is taken:
\* whatever updates, yoyo swaps, cycle resets and writes to the subject or
\* to the start tree have happened, it equals the start values resolved at
\* initialization, and the start tree that a cycle reset installs is a copy
\* of it, sharing no array with it.
C25_SnapshotKept ==
    /\ tw.valuesStartRepeat = tw.declaredStart
    /\ tw.snapshotProps = {}
    /\ tw.status = "playing"
       => \A time \in Arrivals :
              /\ TweenAfter(time).valuesStartRepeat = tw.declaredStart
              /\ TweenAfter(time).snapshotProps = {}

\* after a cycle reset the caller wrote over the subject's array, which is
\* the array of the start tree that the reset installed; the snapshot still
\* holds the start values resolved at initialization
C25_Witness ==
    /\ ~tw.yoyo
    /\ tw.repeatsRemaining < tw.repeat
    /\ tw.sharedProps = {"x"}
    /\ tw.object.x.v = <<Drifted, Drifted>>
    /\ tw.valuesStart.x.v = <<Drifted, Drifted>>
    /\ tw.valuesStartRepeat.x.v = <<0, 0>>
    /\ tw.valuesStartRepeat = tw.declaredStart

(***************************************************************************)
(* Properties of the self-driving loop                                     *)
(***************************************************************************)
\* the timeline after start() without a time
Started == TimelineStart(ClearLogs(tl), None, now, RafNext)

\* C26: start() without a time, on a timeline that is not playing and has
\* auto-drive enabled, begins the self-driving loop: it requests a frame
\* callback and updates the timeline, also when the timeline has run to
\* completion before.
C26_AutoDriveStart ==
    (~tl.isPlaying /\ tl.autoUpdate)
    => /\ RafNext \in Started.rafRequested
       /\ Started.animFrameId = Some(RafNext)
       /\ Count(Started.log, "update") = 1

\* the timeline after resume() now and then update() without a time at a
\* later reading of the host clock
ResumedThenUpdated(later) ==
    TimelineUpdate(TimelineResume(ClearLogs(tl), now, RafNext), None, later)

\* C27: for a paused timeline that is driven by update() without a time,
\* the first update after resume() advances currentTime by the time since
\* the resume, times timeScale, and by nothing for the time spent paused.
C27_PauseNotCounted ==
    (tl.isPaused /\ ~tl.autoUpdate)
    => \A later \in Times :
           later >= now
           => ResumedThenUpdated(later).currentTime =
                  tl.currentTime + (later - now) * tl.timeScale

\* a timeline driven by update() without a time has been updated after a
\* pause: its currentTime is behind the host clock by the time spent paused
C27_Witness ==
    /\ tl.isPlaying /\ ~tl.isPaused /\ ~tl.autoUpdate
    /\ tl.timeScale = 1
    /\ Len(Items) = 1
    /\ tl.log = <<Event("update", tl.currentTime)>>
    /\ tl.lastUpdateTime = now
    /\ tl.currentTime > 0
    /\ tl.currentTime < now

(***************************************************************************)
(* Properties of a run: start() and then updates at increasing times       *)
(***************************************************************************)
\* start() has just taken effect
JustStarted ==
    /\ run /\ tl.isPlaying /\ ~tl.isPaused
    /\ tl.currentTime = 0
    /\ tl.log = <<Event("start", 0)>>

\* the timeline after update(t1) and then update(t2), the calls and the
\* notifications of both kept
TwoTicks(t1, t2) == TimelineUpdate(TimelineUpdate(ClearLogs(tl), Some(t1), now), Some(t2), now)

\* C28: in a run of updates at strictly increasing times after start(),
\* every entry target receives start() at most once and notifies `start`
\* and `complete` at most once.
C28_StartedOncePerRun ==
    JustStarted
    => \A t1, t2 \in Times :
           t1 < t2
           => \A i \in 1..Len(Items) :
                  /\ Count(TwoTicks(t1, t2).timelineItems[i].target.calls, "start") <= 1
                  /\ Count(TwoTicks(t1, t2).timelineItems[i].target.log, "start") <= 1
                  /\ Count(TwoTicks(t1, t2).timelineItems[i].target.log, "complete") <= 1

(***************************************************************************)
(* Properties of stop() called from a notification handler                 *)
(***************************************************************************)
\* the timeline after update(time) during which a handler called stop()
StoppedDuring(time, k) == UpdateStopping(ClearLogs(tl), Some(time), now, k)

\* the handler ran: the timeline notified `stop`
HandlerRan(t) == Count(t.log, "stop") > 0

\* the position of the `stop` notification in the timeline's log
StopAt(t) == CHOOSE n \in 1..Len(t.log) : t.log[n].topic = "stop"

\* C29: if a handler calls stop() while update is in progress, from the
\* timeline's `update` notification or from a notification of an entry
\* target, then when the update returns no entry target is playing and the
\* timeline has notified no `complete` after its `stop`.
C29_StopFromHandler ==
    \A time \in Times, k \in 0..Len(Items) :
        HandlerRan(StoppedDuring(time, k))
        => /\ \A i \in 1..Len(Items) :
                 ~TargetIsPlaying(StoppedDuring(time, k).timelineItems[i].target)
           /\ \A n \in 1..Len(StoppedDuring(time, k).log) :
                 StoppedDuring(time, k).log[n].topic = "complete"
                 => n < StopAt(StoppedDuring(time, k))

(***************************************************************************)
(* Properties of the completion of a timeline                              *)
(***************************************************************************)
\* C30: when the timeline notifies `complete`, no entry target is playing.
C30_NoneRunningAtCompletion ==
    \A time \in Times :
        Count(Updated(time).log, "complete") > 0
        => \A i \in 1..Len(Items) : ~TargetIsPlaying(Updated(time).timelineItems[i].target)

(***************************************************************************)
(* Properties of the playhead against the host clock                       *)
(***************************************************************************)
\* the timeline after start() without a time now and then the frame
\* callback that the host runs at a later reading of its clock
FrameAfterStart(later) == InternalUpdate(Started, later, RafNext + 1)

\* C31: in auto-drive mode without pauses, at the frame that the host runs
\* d units of its clock after start() was called, currentTime is
\* d * timeScale.
C31_AutoDriveRelative ==
    (~tl.isPlaying /\ tl.autoUpdate)
    => \A later \in Times :
           (later >= now /\ Count(FrameAfterStart(later).log, "update") = 2)
           => FrameAfterStart(later).currentTime = (later - now) * tl.timeScale

\* the timeline after start() without a time now and then update() without
\* a time at a later reading of the host clock
UpdateAfterStart(later) == TimelineUpdate(Started, None, later)

\* C32: with auto-drive off, after start() without a time the first
\* update() without a time advances currentTime from 0 by the time of the
\* host clock since the start() call, times timeScale.
C32_FirstUpdateAfterStart ==
    (~tl.isPlaying /\ ~tl.autoUpdate)
    => \A later \in Times :
           later >= now
           => UpdateAfterStart(later).currentTime = (later - now) * tl.timeScale

(***************************************************************************)
(* Properties of pause() followed by resume()                              *)
(***************************************************************************)
\* the timeline after the caller has paused the target of entry i itself,
\* by the tween's own pause()
PausedByCaller(i) ==
    [tl EXCEPT !.timelineItems[i].target = IF IsTweenCore(@) THEN TweenPause(@) ELSE @]

\* the timeline as it is, and with one entry target paused by the caller
WithIndependentPause == {tl} \cup {PausedByCaller(i) : i \in 1..Len(Items)}

\* pause() immediately followed by resume()
RoundTrip(t) == TimelineResume(TimelinePause(ClearLogs(t)), now, RafNext)

\* the status of an entry target
StatusOf(t) ==
    IF IsTweenCore(t) THEN t.status
    ELSE IF ~t.isPlaying THEN "idle" ELSE IF t.isPaused THEN "paused" ELSE "playing"

\* C33: on a playing timeline, pause() immediately followed by resume()
\* leaves every entry target in the status it had before, also a target
\* that the caller had paused itself, and leaves currentTime unchanged.
C33_PauseResumeRoundTrip ==
    (tl.isPlaying /\ ~tl.isPaused)
    => \A t \in WithIndependentPause :
           /\ RoundTrip(t).currentTime = t.currentTime
           /\ \A i \in 1..Len(Items) :
                 StatusOf(RoundTrip(t).timelineItems[i].target)
                     = StatusOf(t.timelineItems[i].target)

(***************************************************************************)
(* Properties of Timeline.isPlaying                                        *)
(***************************************************************************)
\* the status of the root timeline: paused from pause() to resume() or
\* stop(), playing otherwise between start() and stop() or completion
TimelineStatus == StatusOf(tl)

\* C34: isPlaying() is true exactly while the timeline's status is playing:
\* it is false before the first start(), after stop(), after completion and
\* while the timeline is paused.
C34_IsPlayingMeansPlaying == TimelineIsPlaying(tl) <=> TimelineStatus = "playing"

(***************************************************************************)
(* The self-driving loop with a notification handler.  A handler           *)
(* subscribed once to the timeline's `update` or `complete` notification   *)
(* makes lifecycle calls on the timeline while _internalUpdate runs.       *)
(***************************************************************************)
\* the lifecycle calls a handler makes
HandlerCalls == {"start", "stop", "pause", "resume", "autoOff", "autoOn"}
MaxHandlerCalls == 2
Handlers == UNION {[1..n -> HandlerCalls] : n \in 1..MaxHandlerCalls}

\* the k-th handle requestAnimationFrame returns from now on (see RafNext)
RafFresh(k) ==
    LET used == rafPending \cup {tl.animFrameId.value}
        free == (1..(Cardinality(used) + k)) \ used
    IN  CHOOSE h \in free : Cardinality({g \in free : g < h}) = k - 1

\* one lifecycle call made from a handler
HandlerCall(t, call, time, handle) ==
    CASE call = "start"   -> TimelineStart(t, None, time, handle)
      [] call = "stop"    -> TimelineStop(t)
      [] call = "pause"   -> TimelinePause(t)
      [] call = "resume"  -> TimelineResume(t, time, handle)
      [] call = "autoOff" -> SetAutoUpdate(t, FALSE)
      [] call = "autoOn"  -> SetAutoUpdate(t, TRUE)

\* the handler's body: its calls in order, the n-th call drawing handle n + 1
RECURSIVE RunHandler(_, _, _, _)
RunHandler(t, calls, time, n) ==
    IF n > Len(calls) THEN t
    ELSE RunHandler(HandlerCall(t, calls[n], time, RafFresh(n + 1)), calls, time, n + 1)

\* Timeline._internalUpdate with the handler subscribed to `topic`
InternalUpdateHandling(t, time, topic, calls) ==
    IF ~t.isPlaying \/ t.isPaused \/ ~t.autoUpdate THEN t
    ELSE LET t1 == [t EXCEPT !.animFrameId = Some(RafFresh(1)),
                             !.rafRequested = @ \cup {RafFresh(1)},
                             !.currentTime = time * t.timeScale]
             t2 == Emit(t1, "update", t1.currentTime)
             t3 == UpdateItems(IF topic = "update" THEN RunHandler(t2, calls, time, 1) ELSE t2,
                               time)
         IN  IF t3.currentTime < t3.duration THEN t3
             ELSE IF topic = "update" THEN Emit([t3 EXCEPT !.isPlaying = FALSE], "complete", 0)
             ELSE RunHandler(Emit([t3 EXCEPT !.isPlaying = FALSE], "complete", 0),
                             calls, time, 1)

\* the host runs a pending frame callback while the handler is subscribed
FrameHandling ==
    /\ \E h \in rafPending, topic \in {"update", "complete"}, calls \in Handlers :
          /\ tl' = InternalUpdateHandling(ClearLogs(tl), now, topic, calls)
          /\ Host(tl', rafPending \ {h})
    /\ run' = FALSE
    /\ UNCHANGED <<now, tw, vecs>>

NextLoop == NextClock \/ FrameHandling

SpecLoop == Init /\ [][NextLoop]_vars

\* the frame callbacks that advance the timeline when the host runs them now
Advancing ==
    {h \in rafPending : InternalUpdate(tl, now, RafNext) # tl}

\* C35: a timeline has at most one pending frame callback that will advance
\* it, whatever start, stop, pause, resume, setAutoUpdate, handler-triggered
\* lifecycle calls and frame ticks came before; the one callback is the one
\* whose handle the timeline holds.
C35_SingleFrameLoop ==
    /\ Cardinality(rafPending) <= 1
    /\ \A h \in rafPending : tl.animFrameId = Some(h)

\* a handler has stopped and restarted the loop inside a frame, and the loop
\* goes on
C35_Witness ==
    /\ Count(tl.log, "stop") = 1
    /\ Count(tl.log, "start") = 1
    /\ Count(tl.log, "update") = 2
    /\ Advancing # {}

(***************************************************************************)
(* Properties of the notifications of resume()                             *)
(***************************************************************************)
\* resume() called now
Resumed == TimelineResume(ClearLogs(tl), now, RafNext)

\* C37: after resume() on a paused timeline the `resume` notification is
\* emitted before any `update` or `complete` notification that follows the
\* resume, with auto-drive as well as without it.
C37_ResumeNotifiedFirst ==
    tl.isPaused
    => /\ Count(Resumed.log, "resume") = 1
       /\ \A n \in 1..Len(Resumed.log) :
              Resumed.log[n].topic \in {"update", "complete"}
              => \E m \in 1..(n - 1) : Resumed.log[m].topic = "resume"

(***************************************************************************)
(* The self-driving loop under a host that keeps delivering frame          *)
(* callbacks and whose clock keeps increasing.  The caller builds the      *)
(* timeline, enables auto-drive and calls start(); it never stops or       *)
(* pauses the timeline and never switches it out of auto-drive.            *)
(***************************************************************************)
\* setAutoUpdate(true)
EnableAutoUpdate ==
    /\ tl' = SetAutoUpdate(ClearLogs(tl), TRUE)
    /\ run' = FALSE
    /\ Host(tl', rafPending)
    /\ UNCHANGED <<now, tw, vecs>>

NextDrive == AddClockTween \/ EnableAutoUpdate \/ TimeScale \/ Start \/ Tick \/ Frame

\* the host takes a frame callback it holds out of its queue to run it
HostDelivers ==
    \E h \in rafPending :
        \E p \in SUBSET ((rafPending \cup {RafNext}) \ {h}) : rafPending' = p

\* a step of this caller and host takes a callback out of the queue exactly
\* when it is a Frame step
HostDeliversIsFrame == [][<<HostDelivers>>_rafPending <=> Frame]_vars

\* the host runs every frame callback it holds, and its clock advances
\* (up to the bound of the model, which no timeline's duration exceeds)
SpecDrive ==
    Init /\ [][NextDrive]_vars /\ WF_rafPending(HostDelivers) /\ WF_vars(Tick)

\* start() without a time has just taken effect with auto-drive enabled
StartedAutoDrive ==
    /\ tl.isPlaying
    /\ tl.autoUpdate
    /\ Count(tl.log, "start") = 1

\* the last call or frame notified `complete`
Completed == Count(tl.log, "complete") = 1

\* C36: a timeline with auto-drive enabled and timeScale > 0 that is started
\* with start() and is not stopped, paused or switched out of auto-drive
\* eventually notifies `complete`, provided the host keeps delivering frame
\* callbacks and its clock keeps increasing.
C36_AutoDriveCompletes == StartedAutoDrive ~> Completed

\* the frame callback whose handle the timeline holds is still with the host
LoopAlive == tl.animFrameId.defined => tl.animFrameId.value \in rafPending


\* the timeline completes when start() found no stale handle in _animFrameId
AutoDriveCompletesWhenAlive == (StartedAutoDrive /\ LoopAlive) ~> Completed

(***************************************************************************)
(* A caller of Vec3: it holds two objects and calls the static operations, *)
(* with no `out`, with a separate `out` or with an input as `out`, and the *)
(* instance operations                                                     *)
(***************************************************************************)
\* the `out` arguments and the default values a caller passes
Outs == {NoOut} \cup {Some(r) : r \in Refs}
Defaults == {0, 1}

InitVec ==
    /\ tl = NewTimeline
    /\ now = 0
    /\ rafPending = {}
    /\ run = FALSE
    /\ tw = TweenOf(TimeStep, 0, FALSE)
    /\ vecs \in [Refs -> Vec]

\* a call whose outcome is `outcome`; the caller keeps to vectors of Vec
Call(outcome) ==
    /\ outcome.objs \in [Refs -> Vec]
    /\ vecs' = outcome.objs
    /\ UNCHANGED <<tl, now, rafPending, run, tw>>

VecAdd ==
    \E a \in Refs, b \in Refs, out \in Outs :
        Call(StaticAdd(vecs, a, b, out))

VecRotateX ==
    \E v \in Refs, angle \in Angles, out \in Outs :
        Call(StaticRotateX(vecs, v, angle, out))

VecRotateY ==
    \E v \in Refs, angle \in Angles, out \in Outs :
        Call(StaticRotateY(vecs, v, angle, out))

VecRotateZ ==
    \E v \in Refs, angle \in Angles, out \in Outs :
        Call(StaticRotateZ(vecs, v, angle, out))

VecInverseSafe ==
    \E v \in Refs, out \in Outs, d \in Defaults :
        Call(StaticInverseSafe(vecs, v, out, d))

ThisRotateX ==
    \E v \in Refs, angle \in Angles :
        Call(InstanceRotateX(vecs, v, angle))

ThisRotateY ==
    \E v \in Refs, angle \in Angles :
        Call(InstanceRotateY(vecs, v, angle))

ThisRotateZ ==
    \E v \in Refs, angle \in Angles :
        Call(InstanceRotateZ(vecs, v, angle))

ThisInverseSafe ==
    \E v \in Refs, d \in Defaults :
        Call(InstanceInverseSafe(vecs, v, d))

NextVec ==
    \/ VecAdd \/ VecRotateX \/ VecRotateY \/ VecRotateZ \/ VecInverseSafe
    \/ ThisRotateX \/ ThisRotateY \/ ThisRotateZ \/ ThisInverseSafe

SpecVec == InitVec /\ [][NextVec]_vars


(***************************************************************************)
(* Properties of the Vec3 operations                                       *)
(***************************************************************************)
\* what a call returns is the same object, with the same components, as
\* `other` returns
SameResult(call, ref, other) ==
    /\ ~call.threw
    /\ ~other.threw
    /\ call.ref = ref
    /\ call.objs[ref] = call.value
    /\ call.value = other.value

\* Vec3.add with an input as `out`, against the call without `out`
AddAliased ==
    \A a \in Refs, b \in Refs :
        /\ SameResult(StaticAdd(vecs, a, b, Some(a)), a, StaticAdd(vecs, a, b, NoOut))
        /\ SameResult(StaticAdd(vecs, a, b, Some(b)), b, StaticAdd(vecs, a, b, NoOut))

\* Vec3.rotateX, rotateY, rotateZ with v as `out`, against the same call
\* with a separate `out`
RotateAliased ==
    \A v \in Refs : \A o \in Refs \ {v}, angle \in Angles :
        /\ SameResult(StaticRotateX(vecs, v, angle, Some(v)), v,
                      StaticRotateX(vecs, v, angle, Some(o)))
        /\ SameResult(StaticRotateY(vecs, v, angle, Some(v)), v,
                      StaticRotateY(vecs, v, angle, Some(o)))
        /\ SameResult(StaticRotateZ(vecs, v, angle, Some(v)), v,
                      StaticRotateZ(vecs, v, angle, Some(o)))

\* C38: for the static Vec3 operations that take an optional `out`, passing
\* one of the inputs as `out` returns that same object holding the same
\* components that the call produces with a fresh `out`: Vec3.add(a, b, a),
\* Vec3.add(a, b, b), Vec3.rotateX(v, a, v), Vec3.rotateY(v, a, v) and
\* Vec3.rotateZ(v, a, v).
C38_AliasedOut == AddAliased /\ RotateAliased


\* Vec3.inverseSafe(v, out, d) with a separate out, and v.inverseSafe(d) on
\* a copy of v, give the same components and neither throws
InverseSafeAgree(v, d) ==
    \A o \in Refs \ {v} :
        /\ ~StaticInverseSafe(vecs, v, Some(o), d).threw
        /\ ~InstanceInverseSafe(vecs, v, d).threw
        /\ StaticInverseSafe(vecs, v, Some(o), d).value
               = InstanceInverseSafe(vecs, v, d).value

\* C39: for every vector v and default d, Vec3.inverseSafe(v, out, d) and
\* v.inverseSafe(d) produce the same components (each component with
\* |c| < EPSILON becomes d, every other component becomes 1/c) and neither
\* raises an error.
C39_InverseSafeAgree ==
    \A v \in Refs, d \in Defaults :
        /\ InverseSafeAgree(v, d)
        /\ \A p \in {"x", "y", "z"} :
               InstanceInverseSafe(vecs, v, d).value[p]
                   = IF Abs(vecs[v][p]) < EPSILON THEN d ELSE Recip(vecs[v][p])

====
